---- MODULE Spec2Model ----
(***************************************************************************)
(* Dispatch core of Monocle (monocle/overseer.py, scan.py): the launcher   *)
(* loop Overseer._launch, the visit tasks Overseer.try_point, the worker   *)
(* selector Overseer.best_worker, the admission semaphore, the workers'    *)
(* busy locks and the captcha queue's full_wait.                           *)
(*                                                                         *)
(* Scheduling is asyncio's: one coroutine runs at a time, from one         *)
(* suspension point to the next.  An action of the launcher or of a task   *)
(* is one such run.  The clock, the captcha queue (owned by the manager    *)
(* process) and the sighting store (filled by the workers) change          *)
(* independently of the coroutines.                                        *)
(***************************************************************************)
EXTENDS Integers, Sequences, FiniteSets, Bags, TLC

\* ---- bounds of the model ----
NWorkers == 2        \* size of the worker pool (conf.GRID[0] * conf.GRID[1])
MaxTasks == 3        \* task objects alive at the same time
MaxTime == 3         \* last second the clock reaches in the steady-state specification
MaxTimeAll == 2      \* last second the clock reaches in the cold-start specification
MaxQueue == 2        \* largest size of the captcha queue
MaxCount == 1        \* cap of the counters visits, skipped and redundant
NEvents == 2         \* known spawns in SPAWNS
NMysteries == 1      \* distinct mystery points
NBootPoints == 2     \* points of get_bootstrap_points()
NAccounts == 3       \* usernames of the account table

\* ---- configuration (monocle.sanitized / scan.py _optional) ----
COROUTINES_LIMIT == 2
SPEED_LIMIT == 5
GOOD_ENOUGH == 2
GIVE_UP_KNOWN == 2
GIVE_UP_UNKNOWN == 1
SKIP_SPAWN == 7
SWAP_OLDEST == 2
MINIMUM_RUNTIME == 1
HOUR == 3600
\* literals of Overseer._launch
REDUNDANT_AFTER == 5
SLEEP_BEFORE == 1

Workers == 1..NWorkers
Events == 1..NEvents
Costs == {1, 3, 7}   \* travel_speed results: good enough, acceptable, too fast
None == 0
Infinity == 1000000000
Never == Infinity        \* no timer armed
MsPerSecond == 1000
MsPerMinute == 60000

\* time.time() - time.monotonic(): the epoch clock is far ahead of the
\* monotonic clock (seconds since boot); the run starts StartSecond seconds
\* into an hour.
StartSecond == 6
EpochOffset == 500 * HOUR + StartSecond

VARIABLES
    clock,          \* time.monotonic(), in seconds
    qsize,          \* captcha_queue.qsize()
    maxc,           \* conf.MAX_CAPTCHAS
    store,          \* SIGHTING_CACHE.store: spawn ids already seen
    cost,           \* cost[w]: worker w's travel_speed to the point asked for
    sem,            \* coroutine_semaphore._value
    locked,         \* locked[w]: worker w's busy lock is held
    waiters,        \* waiters[w]: tasks queued on worker w's busy lock
    tasks,          \* the task objects of the event loop
    lpc,            \* position of launch/_launch
    initial,        \* _launch: initial
    bootstrap,      \* _launch: bootstrap argument
    nspawns,        \* len(SPAWNS) after the last update
    idx,            \* position of the for loop in SPAWNS.items()
    start_point,    \* _launch: start_point
    current_hour,   \* _launch: current_hour
    time_diff,      \* _launch: time_diff
    mystery_point,  \* _launch: popped mystery point awaiting its permit
    wake,           \* end of the asyncio.sleep the launcher is in
    paused,         \* Overseer.paused
    mysteries,      \* Overseer.mysteries (deque)
    skipped,        \* Overseer.skipped
    visits,         \* Overseer.visits
    redundant,      \* Overseer.redundant
    exceptions,     \* launch: exceptions
    swap_at,        \* time at which the timer of swap_oldest fires next
    stopping,       \* cleanup: "no", "drain" (wait_for running), "cancel" (timed out),
                    \* "dump" (pickles), "dbwait" (DB queue), "closed" (loop closed)
    accounts,       \* ACCOUNTS: the account table, one record of flags per username
    routed,         \* Overseer.start: accounts of the table handled so far
    captcha_queue,  \* Overseer.captcha_queue: usernames, oldest first
    extra_queue,    \* Overseer.extra_queue: usernames, oldest first
    start_time      \* start_time[w]: Worker.start_time, None before the first session

envVars == <<clock, qsize, maxc, store, cost>>
syncVars == <<sem, locked, waiters, tasks>>
loopVars == <<lpc, initial, bootstrap, nspawns, idx, start_point, current_hour,
              time_diff, mystery_point, wake, paused, exceptions>>
countVars == <<mysteries, skipped, visits, redundant>>
poolVars == <<accounts, routed, captcha_queue, extra_queue, start_time>>
vars == <<envVars, syncVars, loopVars, countVars, swap_at, stopping, poolVars>>

\* the account pool as the dispatch loop's specifications leave it: the table
\* is not looked at, the queues and the session ages are inputs of the actions
PoolIdle ==
    /\ accounts = <<>>
    /\ routed = 0
    /\ captcha_queue = <<>>
    /\ extra_queue = <<>>
    /\ start_time = [w \in Workers |-> None]

\* ---- clocks ----
Monotonic == clock
TimeNow == EpochOffset + clock

\* utils.get_current_hour(): epoch second at which the current hour began
get_current_hour == TimeNow - (TimeNow % HOUR)

\* SPAWNS: ordered mapping spawn_id -> (point, second of the hour); the ids
\* 1..n in iteration order, spawn e at second SpawnSecond(e) of the hour
SpawnSecond(e) == 7 * e - 6

\* SPAWNS.after_last(): the time of hour is past the last known spawn
after_last(n) == n > 0 /\ (TimeNow % HOUR) > SpawnSecond(n)

Max(a, b) == IF a >= b THEN a ELSE b

\* ---- the task objects ----
\* The tasks of the event loop are kept as a bag of records (tasks in the same
\* position are interchangeable); a task queued on a busy lock sits in that
\* lock's queue instead.
\* pc: "created" (scheduled, first step not run yet), "semwait" (in
\*     coroutine_semaphore.acquire), "sleeping" (best_worker's asyncio.sleep),
\*     "lockwait" (queued on worker.busy), "visiting" (inside the locked
\*     section, awaiting the visit, bootstrap visit or swap)
\* kind: "spawn"/"mystery" (try_point), "boot1" (visit_release),
\*       "boot2" (bootstrap_try), "swap" (lock_and_swap)
\* pt: the point (mystery id or spawn id), st: spawn_time, t0: time.monotonic()
\* read when best_worker was entered (skip_time is computed from it), w: the
\* worker, permit: a permit of coroutine_semaphore was acquired for the task;
\* a field is None once the code reads it no more.
NewTask(kind, pt, st, w, permit) ==
    [pc |-> "created", kind |-> kind, pt |-> pt, st |-> st, t0 |-> None, w |-> w,
     permit |-> permit]
Live == BagToSet(tasks)
RECURSIVE QueuedFrom(_)
QueuedFrom(w) == IF w > NWorkers THEN 0 ELSE Len(waiters[w]) + QueuedFrom(w + 1)
NTasks == BagCardinality(tasks) + QueuedFrom(1)
Put(bag, r) == bag (+) SetToBag({r})
Take(bag, r) == bag (-) SetToBag({r})

\* A task holds an admission permit from the acquire made for it to its release.
HoldsPermit(r) == r.permit
RECURSIVE CountIn(_, _)
CountIn(S, bag) ==
    IF S = {} THEN 0
    ELSE LET r == CHOOSE x \in S : TRUE
         IN CopiesIn(r, bag) + CountIn(S \ {r}, bag)
RECURSIVE PermitsQueued(_)
PermitsQueued(w) ==
    IF w > NWorkers THEN 0
    ELSE Len(SelectSeq(waiters[w], HoldsPermit)) + PermitsQueued(w + 1)
PermitsHeld == CountIn({r \in Live : HoldsPermit(r)}, tasks) + PermitsQueued(1)

\* the number of tasks inside the locked section of worker w
InLock(w) == CountIn({r \in Live : r.pc = "visiting" /\ r.w = w}, tasks)

\* ---- Overseer.best_worker ----
\* a scan that stops at the first idle worker below SPEED_LIMIT
RECURSIVE ScanFromFirstFit(_, _, _, _, _)
ScanFromFirstFit(i, lowest_speed, worker, c, lk) ==
    IF i > NWorkers THEN [speed |-> lowest_speed, worker |-> worker]
    ELSE IF lk[i] THEN ScanFromFirstFit(i + 1, lowest_speed, worker, c, lk)
    ELSE IF c[i] < SPEED_LIMIT THEN [speed |-> c[i], worker |-> i]
    ELSE ScanFromFirstFit(i + 1, lowest_speed, worker, c, lk)

\* one pass of the for loop over the idle workers, in pool order
RECURSIVE ScanFrom(_, _, _, _, _)
ScanFrom(i, lowest_speed, worker, c, lk) ==
    IF i > NWorkers THEN [speed |-> lowest_speed, worker |-> worker]
    ELSE IF lk[i] THEN ScanFrom(i + 1, lowest_speed, worker, c, lk)
    ELSE IF c[i] < lowest_speed
         THEN IF GOOD_ENOUGH # None /\ c[i] < GOOD_ENOUGH
              THEN [speed |-> c[i], worker |-> i]
              ELSE ScanFrom(i + 1, c[i], i, c, lk)
         ELSE ScanFrom(i + 1, lowest_speed, worker, c, lk)

BestScan(c, lk) == ScanFrom(1, Infinity, None, c, lk)

\* skip_time, fixed when best_worker is entered at time.monotonic() = t0
SkipTime(t0, spawn_time, must_visit) ==
    IF spawn_time # None THEN Max(t0 + GIVE_UP_KNOWN, spawn_time)
    ELSE IF must_visit THEN Infinity
    ELSE t0 + GIVE_UP_UNKNOWN

\* a best_worker that gives up as soon as a scan fails
BestWorkerPassNoWait(c, skip_time) ==
    LET r == BestScan(c, locked) IN
    IF r.speed < SPEED_LIMIT THEN [res |-> "worker", w |-> r.worker]
    ELSE [res |-> "none", w |-> None]

\* what one iteration of the while loop does after its scan
BestWorkerPass(c, skip_time) ==
    LET r == BestScan(c, locked) IN
    IF r.speed < SPEED_LIMIT THEN [res |-> "worker", w |-> r.worker]
    ELSE IF Monotonic > skip_time THEN [res |-> "none", w |-> None]
    ELSE [res |-> "sleep", w |-> None]

\* ---- scheduling ----
\* The launcher is between two suspension points: no task runs meanwhile.
LoopRunning == lpc \in {"event", "drain", "decide"}
\* The event loop runs tasks: not inside a launcher step, and not yet closed.
TasksRun == ~LoopRunning /\ stopping \in {"no", "drain"}

\* the launcher was cancelled inside asyncio.gather: gather has cancelled its
\* bootstrap_try tasks, each gets CancelledError at the await it is in
Cancelling(r) == lpc = "cancelled_g" /\ r.kind = "boot2"

\* ---- worker.busy (asyncio.Lock) ----
\* async with worker.busy: the section is entered at once when the lock is free
\* and nobody queues for it, else the task queues behind the others.
LockFreeIgnoringHolder(w) == waiters[w] = <<>>

LockFree(w) == ~locked[w] /\ waiters[w] = <<>>

EnterLockFrom(bag, r, w) ==
    LET r2 == [r EXCEPT !.w = w, !.st = None, !.t0 = None] IN
    IF LockFree(w)
    THEN /\ locked' = [locked EXCEPT ![w] = TRUE]
         /\ waiters' = waiters
         /\ tasks' = Put(Take(bag, r), [r2 EXCEPT !.pc = "visiting"])
    ELSE /\ locked' = locked
         /\ waiters' = [waiters EXCEPT ![w] = Append(@, [r2 EXCEPT !.pc = "lockwait"])]
         /\ tasks' = Take(bag, r)

EnterLock(r, w) == EnterLockFrom(tasks, r, w)

\* the release wakes the first task of the queue, which takes the lock
LockAcquired(w) ==
    /\ TasksRun
    /\ ~locked[w]
    /\ waiters[w] # <<>>
    /\ ~Cancelling(Head(waiters[w]))
    /\ locked' = [locked EXCEPT ![w] = TRUE]
    /\ waiters' = [waiters EXCEPT ![w] = Tail(@)]
    /\ tasks' = Put(tasks, [Head(waiters[w]) EXCEPT !.pc = "visiting"])
    /\ UNCHANGED <<poolVars, envVars, sem, loopVars, countVars, swap_at, stopping>>

\* ---- Overseer.try_point ----
\* a backlog that takes returned points at its front
PushFront(q, p) == <<p>> \o q

\* self.mysteries.append(point): the point goes to the back of the deque
PushBack(q, p) == Append(q, p)

\* a try_point that counts every point without worker as skipped
TryPointPassSkipsAll(r, c, t0) ==
    LET b == BestWorkerPass(c, SkipTime(t0, r.st, FALSE)) IN
    CASE b.res = "worker" ->
            /\ EnterLock(r, b.w)
            /\ UNCHANGED <<sem, countVars>>
      [] b.res = "none" ->
            /\ skipped < MaxCount
            /\ skipped' = skipped + 1
            /\ mysteries' = mysteries
            /\ sem' = sem + 1
            /\ tasks' = Take(tasks, r)
            /\ UNCHANGED <<locked, waiters, visits, redundant>>
      [] b.res = "sleep" ->
            /\ tasks' = Put(Take(tasks, r),
                            [r EXCEPT !.pc = "sleeping", !.t0 = t0])
            /\ UNCHANGED <<sem, locked, waiters, countVars>>

\* from the call of best_worker (or from its sleep) to the next suspension
TryPointPass(r, c, t0) ==
    LET b == BestWorkerPass(c, SkipTime(t0, r.st, FALSE)) IN
    CASE b.res = "worker" ->
            /\ EnterLock(r, b.w)
            /\ UNCHANGED <<sem, countVars>>
      [] b.res = "none" ->
            /\ IF r.st # None
               THEN /\ skipped < MaxCount
                    /\ skipped' = skipped + 1
                    /\ mysteries' = mysteries
               ELSE /\ mysteries' = PushBack(mysteries, r.pt)
                    /\ skipped' = skipped
            /\ sem' = sem + 1
            /\ tasks' = Take(tasks, r)
            /\ UNCHANGED <<locked, waiters, visits, redundant>>
      [] b.res = "sleep" ->
            /\ tasks' = Put(Take(tasks, r),
                            [r EXCEPT !.pc = "sleeping", !.t0 = t0])
            /\ UNCHANGED <<sem, locked, waiters, countVars>>

\* first step of the task: randomize_point, best_worker entered
TryPointStart(r, c) ==
    /\ TasksRun
    /\ r \in Live
    /\ r.pc = "created"
    /\ r.kind \in {"spawn", "mystery"}
    /\ TryPointPass(r, c, Monotonic)
    /\ UNCHANGED <<poolVars, envVars, loopVars, swap_at, stopping>>

\* best_worker wakes from asyncio.sleep(SEARCH_SLEEP) and scans again
TryPointPoll(r, c) ==
    /\ TasksRun
    /\ r \in Live
    /\ r.pc = "sleeping"
    /\ r.kind \in {"spawn", "mystery"}
    /\ TryPointPass(r, c, r.t0)
    /\ UNCHANGED <<poolVars, envVars, loopVars, swap_at, stopping>>

\* an exception before the visit (randomize_point, travel_speed): logged by
\* "except Exception", the permit is released by "finally"
TryPointFault(r) ==
    /\ TasksRun
    /\ r \in Live
    /\ r.pc \in {"created", "sleeping"}
    /\ r.kind \in {"spawn", "mystery"}
    /\ sem' = sem + 1
    /\ tasks' = Take(tasks, r)
    /\ UNCHANGED <<poolVars, envVars, locked, waiters, loopVars, countVars, swap_at,
                   stopping>>

\* a try_point without its finally clause and without "async with": the
\* exception of a visit leaves the permit and the lock taken
TryPointVisitedLeaks(r, result) ==
    /\ TasksRun
    /\ r \in Live
    /\ r.pc = "visiting"
    /\ r.kind \in {"spawn", "mystery"}
    /\ IF result = "true"
       THEN visits < MaxCount /\ visits' = visits + 1
       ELSE visits' = visits
    /\ locked' = IF result = "raise" THEN locked ELSE [locked EXCEPT ![r.w] = FALSE]
    /\ sem' = IF result = "raise" THEN sem ELSE sem + 1
    /\ tasks' = Take(tasks, r)
    /\ UNCHANGED <<poolVars, envVars, waiters, loopVars, mysteries, skipped, redundant,
                   swap_at, stopping>>

\* worker.visit(point) returns True or False, or raises
TryPointVisited(r, result) ==
    /\ TasksRun
    /\ r \in Live
    /\ r.pc = "visiting"
    /\ r.kind \in {"spawn", "mystery"}
    /\ IF result = "true"
       THEN visits < MaxCount /\ visits' = visits + 1
       ELSE visits' = visits
    /\ locked' = [locked EXCEPT ![r.w] = FALSE]
    /\ sem' = sem + 1
    /\ tasks' = Take(tasks, r)
    /\ UNCHANGED <<poolVars, envVars, waiters, loopVars, mysteries, skipped, redundant,
                   swap_at, stopping>>

\* ---- Overseer.get_start_point ----
\* a scan that keeps the first spawn found earlier in the hour
RECURSIVE StartFromFirst(_, _, _, _, _)
StartFromFirst(i, n, smallest_diff, closest, now) ==
    IF i > n THEN closest
    ELSE IF 0 < now - SpawnSecond(i) THEN i
         ELSE StartFromFirst(i + 1, n, smallest_diff, closest, now)

RECURSIVE StartFrom(_, _, _, _, _)
StartFrom(i, n, smallest_diff, closest, now) ==
    IF i > n THEN closest
    ELSE LET d == now - SpawnSecond(i)
             hit == 0 < d /\ d < smallest_diff
             s2 == IF hit THEN d ELSE smallest_diff
             c2 == IF hit THEN i ELSE closest
         IN IF s2 < 3 THEN c2 ELSE StartFrom(i + 1, n, s2, c2, now)

get_start_point(n) == StartFrom(1, n, Infinity, None, TimeNow % HOUR)

\* ---- Overseer._launch ----
SpawnTime(e) == SpawnSecond(e) + current_hour
TimeDiff(e) == TimeNow - SpawnTime(e)

\* a launcher that never waits for a permit
CanAcquireAlways == TRUE

\* await self.coroutine_semaphore.acquire() does not suspend while permits are left
CanAcquire == sem > 0

\* a launcher that creates the task without taking a permit for it
DispatchNoPermit(kind, pt, st) ==
    /\ NTasks < MaxTasks
    /\ sem' = sem
    /\ tasks' = Put(tasks, NewTask(kind, pt, st, None, FALSE))

\* the permit is taken, then LOOP.create_task(self.try_point(point, spawn_time))
Dispatch(kind, pt, st) ==
    /\ NTasks < MaxTasks
    /\ sem' = sem - 1
    /\ tasks' = Put(tasks, NewTask(kind, pt, st, None, TRUE))

\* top of "while True": the flags are cleared once the first pass is over
LoopTop(initialNow) ==
    /\ lpc' = "refresh"
    /\ idx' = 0
    /\ bootstrap' = IF ~initialNow THEN FALSE ELSE bootstrap

\* start of the for loop over SPAWNS.items()
ForLoop(n, initialNow) ==
    IF n > 0 THEN lpc' = "event" /\ idx' = 1 /\ bootstrap' = bootstrap
    ELSE LoopTop(initialNow)

\* "continue", or the end of the for body: next spawn, or next hour pass
Continue(initialNow) ==
    IF idx < nspawns
    THEN lpc' = "event" /\ idx' = idx + 1 /\ bootstrap' = bootstrap
    ELSE LoopTop(initialNow)

\* from "current_hour = get_current_hour()" to the first spawn of the for loop
EnterHour(n) ==
    LET i1 == initial /\ ~after_last(n)
        sp == IF i1 THEN get_start_point(n) ELSE None
    IN /\ current_hour' = IF after_last(n) THEN get_current_hour + HOUR
                          ELSE get_current_hour
       /\ start_point' = sp
       /\ initial' = (i1 /\ sp # None)
       /\ IF i1 THEN ForLoop(n, sp # None)
          ELSE lpc' = "dump" /\ idx' = 0 /\ bootstrap' = bootstrap

\* run_threaded(dump_pickle, 'accounts', ACCOUNTS) is done: the for loop starts
Dumped ==
    /\ lpc = "dump"
    /\ ForLoop(nspawns, initial)
    /\ UNCHANGED <<poolVars, envVars, syncVars, countVars, swap_at, stopping, initial, nspawns,
                   start_point, current_hour, time_diff, mystery_point, wake,
                   paused, exceptions>>

\* a launcher that never bootstraps
RefreshedNoBoot(n) ==
    /\ lpc = "refresh"
    /\ nspawns' = n
    /\ EnterHour(n)
    /\ time_diff' = 0
    /\ UNCHANGED <<poolVars, envVars, syncVars, countVars, swap_at, stopping,
                   mystery_point, wake, paused, exceptions>>

\* run_threaded(SPAWNS.update, pickle) completes with n spawns loaded
Refreshed(n) ==
    /\ lpc = "refresh"
    /\ nspawns' = n
    /\ IF n = 0 \/ bootstrap
       THEN /\ lpc' = "boot1" /\ idx' = 1
            /\ UNCHANGED <<initial, bootstrap, start_point, current_hour>>
       ELSE EnterHour(n)
    /\ time_diff' = 0
    /\ UNCHANGED <<poolVars, envVars, syncVars, countVars, swap_at, stopping,
                   mystery_point, wake, paused, exceptions>>

\* launch gives up once it has counted more than this many exceptions
MAX_FAULTS == 100

\* SPAWNS.update raises: OperationalError on the first pass is raised again and
\* ends launch; any other failure is followed by asyncio.sleep(20)
RefreshFailed(operational) ==
    /\ lpc = "refresh"
    /\ IF operational /\ initial
       THEN lpc' = "returned" /\ exceptions' = exceptions + 1
       ELSE lpc' = "backoff" /\ exceptions' = exceptions
    /\ time_diff' = 0
    /\ UNCHANGED <<poolVars, envVars, syncVars, countVars, swap_at, stopping, initial, bootstrap,
                   nspawns, idx, start_point, current_hour,
                   mystery_point, wake, paused>>

\* the backoff sleep is over: SPAWNS.update is tried again
BackoffOver ==
    /\ lpc = "backoff"
    /\ lpc' = "refresh"
    /\ UNCHANGED <<poolVars, envVars, syncVars, countVars, swap_at, stopping, initial, bootstrap,
                   nspawns, idx, start_point, current_hour, time_diff,
                   mystery_point, wake, paused, exceptions>>

\* ---- CustomQueue.full_wait(maxsize), scan.py ----
\* the call returns once this holds: with maxsize > 0 it waits while
\* _qsize() >= maxsize, with maxsize = 0 it does not wait at all
full_wait(maxsize) == maxsize > 0 => ~(qsize >= maxsize)

\* the check made before each spawn: self.captcha_queue.qsize() > conf.MAX_CAPTCHAS
OverCeiling == qsize > maxc

\* ---- the per-spawn step of the for loop ----
\* top of the body: the seek to start_point, then the check of the captcha
\* queue; fail: captcha_queue.qsize() raises EOFError, BrokenPipeError or
\* FileNotFoundError
Event(fail) ==
    /\ lpc = "event"
    /\ IF initial /\ idx # start_point
       THEN /\ Continue(initial)
            /\ time_diff' = 0
            /\ UNCHANGED <<initial, start_point, paused>>
       ELSE /\ initial' = FALSE
            /\ start_point' = None
            /\ CASE fail ->
                      Continue(FALSE) /\ time_diff' = 0 /\ UNCHANGED paused
                 [] ~fail /\ OverCeiling ->
                      /\ paused' = TRUE
                      /\ lpc' = "bp_wait"
                      /\ time_diff' = 0
                      /\ UNCHANGED <<idx, bootstrap>>
                 [] OTHER ->
                      /\ lpc' = "drain"
                      /\ time_diff' = TimeDiff(idx)
                      /\ UNCHANGED <<idx, bootstrap, paused>>
    /\ UNCHANGED <<poolVars, envVars, syncVars, countVars, swap_at, stopping, nspawns,
                   current_hour, mystery_point, wake, exceptions>>

\* run_threaded(self.captcha_queue.full_wait, conf.MAX_CAPTCHAS) returns
BpReturn ==
    /\ lpc = "bp_wait"
    /\ full_wait(maxc)
    /\ paused' = FALSE
    /\ lpc' = "drain"
    /\ time_diff' = TimeDiff(idx)
    /\ UNCHANGED <<poolVars, envVars, syncVars, countVars, swap_at, stopping, initial, bootstrap,
                   nspawns, idx, start_point, current_hour, mystery_point, wake,
                   exceptions>>

\* full_wait raises EOFError, BrokenPipeError or FileNotFoundError: "continue"
BpFailed ==
    /\ lpc = "bp_wait"
    /\ Continue(FALSE)
    /\ UNCHANGED <<poolVars, envVars, syncVars, countVars, swap_at, stopping, initial, nspawns,
                   start_point, current_hour, time_diff, mystery_point, wake,
                   paused, exceptions>>

\* "while time_diff < 0": a mystery point is popped and dispatched, or the
\* launcher suspends in acquire with the popped point in hand
Drain ==
    /\ lpc = "drain"
    /\ time_diff < 0
    /\ mysteries # <<>>
    /\ mysteries' = Tail(mysteries)
    /\ IF CanAcquire
       THEN /\ Dispatch("mystery", Head(mysteries), None)
            /\ time_diff' = TimeDiff(idx)
            /\ UNCHANGED <<lpc, mystery_point>>
       ELSE /\ lpc' = "acq_m"
            /\ mystery_point' = Head(mysteries)
            /\ time_diff' = 0
            /\ UNCHANGED <<sem, tasks>>
    /\ UNCHANGED <<poolVars,
                   envVars, locked, waiters, skipped, visits, redundant, swap_at, stopping,
                   initial, bootstrap, nspawns, idx, start_point, current_hour,
                   wake, paused, exceptions>>

\* IndexError: the backlog is replaced by SPAWNS.get_mysteries(), here m
Refill(m) ==
    /\ lpc = "drain"
    /\ time_diff < 0
    /\ mysteries = <<>>
    /\ mysteries' = m
    /\ time_diff' = TimeDiff(idx)
    /\ lpc' = IF m = <<>> THEN "decide" ELSE "drain"
    /\ UNCHANGED <<poolVars, envVars, syncVars, skipped, visits, redundant, swap_at, stopping,
                   initial, bootstrap, nspawns, idx, start_point, current_hour,
                   mystery_point, wake, paused, exceptions>>

\* the permit awaited for the popped mystery point is obtained
AcquiredMystery ==
    /\ lpc = "acq_m"
    /\ CanAcquire
    /\ Dispatch("mystery", mystery_point, None)
    /\ mystery_point' = None
    /\ time_diff' = TimeDiff(idx)
    /\ lpc' = "drain"
    /\ UNCHANGED <<poolVars, envVars, locked, waiters, countVars, swap_at, stopping, initial,
                   bootstrap, nspawns, idx, start_point, current_hour, wake,
                   paused, exceptions>>

\* the skip test made before the redundant test
ClassifySkipFirst(td, seen) ==
    IF td < -SLEEP_BEFORE THEN "sleep"
    ELSE IF td > SKIP_SPAWN THEN "skip"
    ELSE IF td > REDUNDANT_AFTER /\ seen THEN "redundant"
    ELSE "dispatch"

\* the skip test with >= in place of >
ClassifySkipInclusive(td, seen) ==
    IF td < -SLEEP_BEFORE THEN "sleep"
    ELSE IF td > REDUNDANT_AFTER /\ seen THEN "redundant"
    ELSE IF td >= SKIP_SPAWN THEN "skip"
    ELSE "dispatch"

\* the if/elif chain after the while loop; seen: spawn_id in SIGHTING_CACHE.store
Classify(td, seen) ==
    IF td < -SLEEP_BEFORE THEN "sleep"
    ELSE IF td > REDUNDANT_AFTER /\ seen THEN "redundant"
    ELSE IF td > SKIP_SPAWN THEN "skip"
    ELSE "dispatch"

\* await self.coroutine_semaphore.acquire(); create_task(try_point(point, spawn_time))
AcquireSpawn ==
    IF CanAcquire
    THEN /\ Dispatch("spawn", idx, SpawnTime(idx))
         /\ Continue(FALSE)
    ELSE /\ lpc' = "acq_s"
         /\ UNCHANGED <<sem, tasks, idx, bootstrap>>

Decide(seen) ==
    /\ lpc = "decide" \/ (lpc = "drain" /\ time_diff >= 0)
    /\ LET c == Classify(time_diff, seen) IN
       CASE c = "sleep" ->
               /\ lpc' = "sleep"
               /\ wake' = clock - time_diff
               /\ UNCHANGED <<sem, tasks, idx, bootstrap, skipped, redundant>>
         [] c = "redundant" ->
               /\ redundant < MaxCount
               /\ redundant' = redundant + 1
               /\ Continue(FALSE)
               /\ UNCHANGED <<sem, tasks, wake, skipped>>
         [] c = "skip" ->
               /\ skipped < MaxCount
               /\ skipped' = skipped + 1
               /\ Continue(FALSE)
               /\ UNCHANGED <<sem, tasks, wake, redundant>>
         [] c = "dispatch" ->
               /\ AcquireSpawn
               /\ UNCHANGED <<wake, skipped, redundant>>
    /\ UNCHANGED <<poolVars,
                   envVars, locked, waiters, mysteries, visits, swap_at, stopping, initial,
                   nspawns, start_point, current_hour, time_diff, mystery_point,
                   paused, exceptions>>

\* asyncio.sleep(time_diff * -1) is over
SleepOver ==
    /\ lpc = "sleep"
    /\ clock >= wake
    /\ wake' = 0
    /\ time_diff' = 0
    /\ AcquireSpawn
    /\ UNCHANGED <<poolVars, envVars, locked, waiters, countVars, swap_at, stopping, initial,
                   nspawns, start_point, current_hour, mystery_point,
                   paused, exceptions>>

\* the permit awaited for the spawn is obtained
AcquiredSpawn ==
    /\ lpc = "acq_s"
    /\ CanAcquire
    /\ Dispatch("spawn", idx, SpawnTime(idx))
    /\ Continue(FALSE)
    /\ time_diff' = 0
    /\ UNCHANGED <<poolVars, envVars, locked, waiters, countVars, swap_at, stopping, initial,
                   nspawns, start_point, current_hour, mystery_point,
                   wake, paused, exceptions>>

\* ---- Overseer.bootstrap ----
\* bootstrap_one: asyncio.sleep(.25) is over, the visit_release task of worker
\* idx is created; after the last worker bootstrap sleeps 15 s
BootOneNext ==
    /\ lpc = "boot1"
    /\ NTasks < MaxTasks
    /\ tasks' = Put(tasks, NewTask("boot1", None, None, idx, FALSE))
    /\ IF idx < NWorkers THEN idx' = idx + 1 /\ lpc' = lpc
       ELSE idx' = 0 /\ lpc' = "settle"
    /\ UNCHANGED <<poolVars, envVars, sem, locked, waiters, countVars, swap_at, stopping, initial,
                   bootstrap, nspawns, start_point, current_hour, time_diff,
                   mystery_point, wake, paused, exceptions>>

\* a bootstrap that lets the exception of phase one through to launch
BootOneAborts ==
    /\ lpc \in {"boot1", "settle"}
    /\ lpc' = "returned"
    /\ exceptions' = exceptions + 1
    /\ UNCHANGED <<poolVars, envVars, syncVars, countVars, swap_at, stopping, initial,
                   bootstrap, nspawns, idx, start_point, current_hour, time_diff,
                   mystery_point, wake, paused>>

\* phase one raises (not a cancellation): logged, phase two follows at once
BootOneFailed ==
    /\ lpc \in {"boot1", "settle"}
    /\ NTasks + NBootPoints <= MaxTasks
    /\ tasks' = tasks (+) [r \in {NewTask("boot2", None, None, None, FALSE)} |-> NBootPoints]
    /\ lpc' = "boot2"
    /\ idx' = 0
    /\ UNCHANGED <<poolVars, envVars, sem, locked, waiters, countVars, swap_at, stopping, initial,
                   bootstrap, nspawns, start_point, current_hour, time_diff,
                   mystery_point, wake, paused, exceptions>>

\* asyncio.sleep(15) is over: bootstrap_two hands one bootstrap_try per
\* coverage point to asyncio.gather and waits for them
Settled ==
    /\ lpc = "settle"
    /\ NTasks + NBootPoints <= MaxTasks
    /\ tasks' = tasks (+) [r \in {NewTask("boot2", None, None, None, FALSE)} |-> NBootPoints]
    /\ lpc' = "boot2"
    /\ UNCHANGED <<poolVars, envVars, sem, locked, waiters, countVars, swap_at, stopping, initial,
                   bootstrap, nspawns, idx, start_point, current_hour, time_diff,
                   mystery_point, wake, paused, exceptions>>

\* the bootstrap_try tasks not finished yet
BootTwoLeft ==
    CountIn({r \in Live : r.kind = "boot2"}, tasks)
      + Cardinality({<<w, i>> \in Workers \X (1..MaxTasks) :
                        i <= Len(waiters[w]) /\ waiters[w][i].kind = "boot2"})

\* gather is done (every task finished, or one of them raised, "boot2x"):
\* bootstrap returns and _launch goes on with the hour pass
BootTwoDone ==
    /\ \/ lpc = "boot2" /\ BootTwoLeft = 0
       \/ lpc = "boot2x"
    /\ EnterHour(nspawns)
    /\ UNCHANGED <<poolVars, envVars, syncVars, countVars, swap_at, stopping, nspawns, time_diff,
                   mystery_point, wake, paused, exceptions>>

\* "async with self.coroutine_semaphore" of visit_release and bootstrap_try,
\* then the body up to its first suspension
BootBody(r, c) ==
    LET held == [r EXCEPT !.permit = TRUE]
        bag == Put(Take(tasks, r), held)
    IN IF r.kind = "boot1"
       THEN /\ EnterLockFrom(bag, held, r.w)
            /\ sem' = sem - 1
       ELSE LET b == BestWorkerPass(c, SkipTime(Monotonic, None, TRUE)) IN
            CASE b.res = "worker" ->
                    /\ EnterLockFrom(bag, held, b.w)
                    /\ sem' = sem - 1
              [] b.res = "none" ->
                    \* worker is None: AttributeError, the permit is given back
                    /\ tasks' = Take(tasks, r)
                    /\ UNCHANGED <<sem, locked, waiters>>
              [] b.res = "sleep" ->
                    /\ tasks' = Put(Take(tasks, r), [held EXCEPT !.pc = "sleeping"])
                    /\ sem' = sem - 1
                    /\ UNCHANGED <<locked, waiters>>

\* first step of a bootstrap task, or its wake-up in acquire
BootStart(r, c) ==
    /\ TasksRun
    /\ r \in Live
    /\ r.kind \in {"boot1", "boot2"}
    /\ ~Cancelling(r)
    /\ r.pc \in {"created", "semwait"}
    /\ IF CanAcquire
       THEN BootBody(r, c)
       ELSE /\ r.pc = "created"
            /\ tasks' = Put(Take(tasks, r), [r EXCEPT !.pc = "semwait"])
            /\ UNCHANGED <<sem, locked, waiters>>
    /\ UNCHANGED <<poolVars, envVars, loopVars, countVars, swap_at, stopping>>

\* best_worker(point, must_visit=True) wakes from its sleep and scans again
BootPoll(r, c) ==
    /\ TasksRun
    /\ r \in Live
    /\ r.kind = "boot2"
    /\ ~Cancelling(r)
    /\ r.pc = "sleeping"
    /\ LET b == BestWorkerPass(c, SkipTime(Monotonic, None, TRUE)) IN
       CASE b.res = "worker" -> EnterLock(r, b.w) /\ sem' = sem
         [] b.res = "none" ->
               /\ tasks' = Take(tasks, r)
               /\ sem' = sem + 1
               /\ UNCHANGED <<locked, waiters>>
         [] b.res = "sleep" -> UNCHANGED <<sem, locked, waiters, tasks>>
    /\ UNCHANGED <<poolVars, envVars, loopVars, countVars, swap_at, stopping>>

\* worker.bootstrap_visit(point) returns True or False, or raises; an exception
\* of a bootstrap_try task makes gather raise in bootstrap_two
BootVisited(r, result) ==
    /\ TasksRun
    /\ r \in Live
    /\ r.kind \in {"boot1", "boot2"}
    /\ ~Cancelling(r)
    /\ r.pc = "visiting"
    /\ IF result = "true"
       THEN visits < MaxCount /\ visits' = visits + 1
       ELSE visits' = visits
    /\ locked' = [locked EXCEPT ![r.w] = FALSE]
    /\ sem' = sem + 1
    /\ tasks' = Take(tasks, r)
    /\ lpc' = IF result = "raise" /\ r.kind = "boot2" /\ lpc = "boot2"
              THEN "boot2x" ELSE lpc
    /\ UNCHANGED <<poolVars, envVars, waiters, mysteries, skipped, redundant, swap_at, stopping,
                   initial, bootstrap, nspawns, idx, start_point, current_hour,
                   time_diff, mystery_point, wake, paused, exceptions>>

\* ---- Overseer.swap_oldest and Worker.lock_and_swap ----
\* the timer fires; w and old_enough: what longest_running returns, the worker
\* and minutes > conf.MINIMUM_RUNTIME; extra_empty: self.extra_queue.empty().
\* The timer is armed again for SWAP_OLDEST later.
SwapOldest(extra_empty, w, old_enough) ==
    /\ TasksRun
    /\ clock >= swap_at
    /\ IF ~paused /\ ~extra_empty /\ old_enough
       THEN /\ NTasks < MaxTasks
            /\ tasks' = Put(tasks, NewTask("swap", None, None, w, FALSE))
       ELSE tasks' = tasks
    /\ swap_at' = clock + SWAP_OLDEST
    /\ UNCHANGED <<poolVars, envVars, sem, locked, waiters, loopVars, countVars, stopping>>

\* longest_running: the workers with a session, x.start_time true
WithSession == {w \in Workers : start_time[w] # None}

\* the scan that keeps the worker with the latest start_time
RECURSIVE YoungestFrom(_, _)
YoungestFrom(w, held) ==
    IF w > NWorkers THEN held
    ELSE IF start_time[w] # None /\ (held = None \/ start_time[w] > start_time[held])
         THEN YoungestFrom(w + 1, w)
         ELSE YoungestFrom(w + 1, held)

\* the scan of longest_running over self.workers from worker w on: held is the
\* worker kept so far (None before next(workers) gave the first); a later
\* worker replaces it only with a strictly earlier start_time
RECURSIVE OldestFrom(_, _)
OldestFrom(w, held) ==
    IF w > NWorkers THEN held
    ELSE IF start_time[w] # None /\ (held = None \/ start_time[w] < start_time[held])
         THEN OldestFrom(w + 1, w)
         ELSE OldestFrom(w + 1, held)

\* minutes > conf.MINIMUM_RUNTIME with minutes = (time.time() * 1000 - earliest) / 60000
OldEnough(earliest) == TimeNow * MsPerSecond - earliest > MINIMUM_RUNTIME * MsPerMinute

\* the callback swap_oldest run by the timer.  With the loop not paused and an
\* account in extra_queue it calls longest_running, whose next(workers) raises
\* StopIteration when no worker has a session: the callback ends there, before
\* call_later, and no timer is armed any more.
swap_oldest ==
    IF ~paused /\ extra_queue # <<>> /\ WithSession = {}
    THEN /\ TasksRun
         /\ clock >= swap_at
         /\ swap_at' = Never
         /\ UNCHANGED <<poolVars, envVars, syncVars, loopVars, countVars, stopping>>
    ELSE LET oldest == OldestFrom(1, None)
         IN  SwapOldest(extra_queue = <<>>, oldest,
                        oldest # None /\ OldEnough(start_time[oldest]))

\* a worker logs in: Worker.start_time becomes the epoch time in milliseconds
SessionStarted(w) ==
    /\ ~LoopRunning
    /\ start_time' = [start_time EXCEPT ![w] = TimeNow * MsPerSecond]
    /\ UNCHANGED <<accounts, routed, captcha_queue, extra_queue, envVars, syncVars,
                   loopVars, countVars, swap_at, stopping>>

\* lock_and_swap: the worker's lock is asked for
SwapStart(r) ==
    /\ TasksRun
    /\ r \in Live
    /\ r.kind = "swap"
    /\ r.pc = "created"
    /\ EnterLock(r, r.w)
    /\ UNCHANGED <<poolVars, envVars, sem, loopVars, countVars, swap_at, stopping>>

\* the account is swapped, the lock released
SwapDone(r) ==
    /\ TasksRun
    /\ r \in Live
    /\ r.kind = "swap"
    /\ r.pc = "visiting"
    /\ locked' = [locked EXCEPT ![r.w] = FALSE]
    /\ tasks' = Take(tasks, r)
    /\ UNCHANGED <<poolVars, envVars, sem, waiters, loopVars, countVars, swap_at, stopping>>

\* ---- shutdown (scan.py main and cleanup) ----
\* the awaits of launch/_launch
Suspended == {"refresh", "backoff", "dump", "bp_wait", "acq_m", "sleep", "acq_s",
              "boot1", "settle", "boot2", "boot2x"}

\* a launcher whose handlers take the cancellation for a fault: it backs off
\* and refreshes again
StopHandled ==
    /\ stopping = "no"
    /\ lpc \in Suspended
    /\ lpc' = "backoff"
    /\ stopping' = "drain"
    /\ mystery_point' = None
    /\ wake' = 0
    /\ time_diff' = 0
    /\ UNCHANGED <<poolVars,
                   swap_at, envVars, syncVars, countVars, initial, bootstrap, nspawns, idx,
                   start_point, current_hour, paused, exceptions>>

\* SIGINT/SIGTERM: launcher.cancel(); CancelledError is raised at the await the
\* launcher is in and launch returns on "except CancelledError"; cancelled in
\* gather ("cancelled_g"), the bootstrap_try tasks are cancelled with it
Stop ==
    /\ stopping = "no"
    /\ lpc \in Suspended
    /\ lpc' = IF lpc = "boot2" THEN "cancelled_g" ELSE "cancelled"
    /\ stopping' = "drain"
    /\ mystery_point' = None
    /\ wake' = 0
    /\ time_diff' = 0
    /\ UNCHANGED <<poolVars,
                   swap_at, envVars, syncVars, countVars, initial, bootstrap, nspawns, idx,
                   start_point, current_hour, paused, exceptions>>

\* launch returned by itself: run_until_complete ends and cleanup starts
Exit ==
    /\ stopping = "no"
    /\ lpc = "returned"
    /\ stopping' = "drain"
    /\ UNCHANGED <<poolVars, swap_at, envVars, syncVars, countVars, loopVars>>

\* cleanup: wait_for(gathered, 30) times out and cancels every pending task
Timeout ==
    /\ stopping = "drain"
    /\ NTasks > 0
    /\ stopping' = "cancel"
    /\ UNCHANGED <<poolVars, swap_at, envVars, syncVars, countVars, loopVars>>

\* CancelledError reaches a task.  A task that has run a step is inside its
\* try or "async with" blocks, which release what they hold; a task that has
\* not run its first step yet ends without having entered any of them.
TaskCancelled(r) ==
    /\ r \in Live
    /\ stopping = "cancel" \/ Cancelling(r)
    /\ sem' = IF r.pc # "created" /\ HoldsPermit(r) THEN sem + 1 ELSE sem
    /\ locked' = IF r.pc = "visiting" THEN [locked EXCEPT ![r.w] = FALSE]
                 ELSE locked
    /\ tasks' = Take(tasks, r)
    /\ UNCHANGED <<poolVars, envVars, waiters, loopVars, countVars, swap_at, stopping>>

\* CancelledError reaches the i-th task queued on worker w's lock
WaiterCancelled(w, i) ==
    /\ i \in 1..Len(waiters[w])
    /\ stopping = "cancel" \/ Cancelling(waiters[w][i])
    /\ sem' = IF HoldsPermit(waiters[w][i]) THEN sem + 1 ELSE sem
    /\ waiters' = [waiters EXCEPT ![w] =
                      SubSeq(@, 1, i - 1) \o SubSeq(@, i + 1, Len(@))]
    /\ UNCHANGED <<poolVars, envVars, locked, tasks, loopVars, countVars, swap_at, stopping>>

\* ---- the rest of cleanup (scan.py) ----
\* every pending task has finished: wait_for returns and cleanup goes on
Gathered ==
    /\ stopping = "drain"
    /\ NTasks = 0
    /\ stopping' = "dump"
    /\ UNCHANGED <<poolVars, swap_at, envVars, syncVars, countVars, loopVars>>

\* a cleanup that waits until every cancelled task has ended
AbandonedWhenDone ==
    /\ stopping = "cancel"
    /\ NTasks = 0
    /\ stopping' = "dump"
    /\ UNCHANGED <<poolVars, swap_at, envVars, syncVars, countVars, loopVars>>

\* wait_for raises TimeoutError ("Coroutine completion timed out, moving
\* on."): run_until_complete ends, whatever tasks are left; how many of them
\* have processed their cancellation by then depends on the interpreter
Abandoned ==
    /\ stopping = "cancel"
    /\ stopping' = "dump"
    /\ UNCHANGED <<poolVars, swap_at, envVars, syncVars, countVars, loopVars>>

\* overseer.refresh_dict(), dump_pickle('accounts', ACCOUNTS), the other
\* pickles, DB_PROC.stop() and SPAWNS.update(); ok: none of them raises (an
\* exception of SPAWNS.update is caught), otherwise the finally clause follows
Pickled(ok) ==
    /\ stopping = "dump"
    /\ stopping' = IF ok THEN "dbwait" ELSE "closed"
    /\ UNCHANGED <<poolVars, swap_at, envVars, syncVars, countVars, loopVars>>

\* "while not DB_PROC.queue.empty()" ends; then finally: manager.shutdown(),
\* SessionManager.close(), close_sessions(), LOOP.close()
DbQueueEmpty ==
    /\ stopping = "dbwait"
    /\ stopping' = "closed"
    /\ UNCHANGED <<poolVars, swap_at, envVars, syncVars, countVars, loopVars>>

\* ---- environment ----
\* A run of the launcher from one await to the next takes no time at the
\* clock's granularity, and the workers that put accounts on the captcha queue
\* are coroutines of the same loop: the clock and the queue change between runs.
\* the clock advances by one second, up to the horizon
Tick(horizon) ==
    /\ ~LoopRunning
    /\ clock < horizon
    /\ clock' = clock + 1
    /\ UNCHANGED <<poolVars, qsize, maxc, store, cost, syncVars, loopVars, countVars,
                   swap_at, stopping>>

\* a worker puts an account that needs a captcha solved
CaptchaPut ==
    /\ ~LoopRunning
    /\ qsize < MaxQueue
    /\ qsize' = qsize + 1
    /\ UNCHANGED <<poolVars,
                   clock, maxc, store, cost, syncVars, loopVars, countVars, swap_at, stopping>>

\* the solver takes an account off the captcha queue
CaptchaGet ==
    /\ ~LoopRunning
    /\ qsize > 0
    /\ qsize' = qsize - 1
    /\ UNCHANGED <<poolVars,
                   clock, maxc, store, cost, syncVars, loopVars, countVars, swap_at, stopping>>

\* ---- specification: the dispatch loop in the steady state ----
\* (spawn data exists, no bootstrap requested)
MysteryLists == {[i \in 1..k |-> i] : k \in 0..NMysteries}
CostMaps == [Workers -> Costs]

Init ==
    /\ PoolIdle
    /\ clock = 0
    /\ qsize = 0
    /\ maxc \in {0, 1}
    /\ store = {}
    /\ cost = [w \in Workers |-> 1]
    /\ sem = COROUTINES_LIMIT
    /\ locked = [w \in Workers |-> FALSE]
    /\ waiters = [w \in Workers |-> <<>>]
    /\ tasks = EmptyBag
    /\ lpc = "refresh"
    /\ initial = TRUE
    /\ bootstrap = FALSE
    /\ nspawns = 0
    /\ idx = 0
    /\ start_point = None
    /\ current_hour = 0
    /\ time_diff = 0
    /\ mystery_point = None
    /\ wake = 0
    /\ paused = FALSE
    /\ mysteries = <<>>
    /\ skipped = 0
    /\ visits = 0
    /\ redundant = 0
    /\ exceptions = 0
    /\ swap_at = Max(SWAP_OLDEST, MINIMUM_RUNTIME)
    /\ stopping = "no"

EnvNext == Tick(MaxTime) \/ CaptchaPut \/ CaptchaGet

LoopNext ==
    \/ \E operational \in BOOLEAN : RefreshFailed(operational)
    \/ BackoffOver
    \/ Dumped
    \/ \E fail \in BOOLEAN : Event(fail)
    \/ Drain
    \/ \E m \in MysteryLists : Refill(m)
    \/ AcquiredMystery
    \/ \E seen \in BOOLEAN : Decide(seen)
    \/ SleepOver
    \/ AcquiredSpawn

BackpressureNext == BpReturn \/ BpFailed

TryPointNext ==
    \E r \in Live :
        \/ \E c \in CostMaps : TryPointStart(r, c)
        \/ \E c \in CostMaps : TryPointPoll(r, c)
        \/ TryPointFault(r)
        \/ \E result \in {"true", "false", "raise"} : TryPointVisited(r, result)

LockNext == \E w \in Workers : LockAcquired(w)

BootNext ==
    \/ BootOneNext
    \/ BootOneFailed
    \/ Settled
    \/ BootTwoDone
    \/ \E r \in Live :
        \/ \E c \in CostMaps : BootStart(r, c)
        \/ \E c \in CostMaps : BootPoll(r, c)
        \/ \E result \in {"true", "false", "raise"} : BootVisited(r, result)

SwapNext ==
    \/ \E extra_empty \in BOOLEAN, w \in Workers, old_enough \in BOOLEAN :
          SwapOldest(extra_empty, w, old_enough)
    \/ \E r \in Live : SwapStart(r) \/ SwapDone(r)

StopNext ==
    \/ Stop
    \/ Exit
    \/ Timeout
    \/ \E r \in Live : TaskCancelled(r)
    \/ \E w \in Workers : \E i \in 1..Len(waiters[w]) : WaiterCancelled(w, i)

\* the dispatch loop in the steady state, with the captcha queue
Next == EnvNext \/ Refreshed(NEvents) \/ LoopNext \/ BackpressureNext \/ TryPointNext

Spec == Init /\ [][Next]_vars

\* ---- specification: every kind of task, from a cold start to shutdown ----
InitAll ==
    /\ Init
    /\ maxc = 0

NextAll ==
    \/ Tick(MaxTimeAll)
    \/ \E n \in (IF initial THEN {0} ELSE {}) \cup {NEvents} : Refreshed(n)
    \/ LoopNext
    \/ TryPointNext
    \/ LockNext
    \/ BootNext
    \/ SwapNext
    \/ StopNext

SpecAll == InitAll /\ [][NextAll]_vars

\* ---- specification: best_worker over every pool ----
\* The launcher sleeps towards the first spawn of the next hour; one try_point
\* task has just been created, for a spawn or for a mystery point; the workers
\* of any subset of the pool are busy in a swap; the costs are any.  The costs
\* then change as the workers travel.
BusySets == {B \in SUBSET Workers : Cardinality(B) + 1 <= MaxTasks}
NextHour == EpochOffset - StartSecond + HOUR

InitSel ==
    /\ PoolIdle
    /\ clock = 0
    /\ qsize = 0
    /\ maxc = 0
    /\ store = {}
    /\ cost \in CostMaps
    /\ sem = COROUTINES_LIMIT - 1
    /\ \E B \in BusySets :
        /\ locked = [w \in Workers |-> w \in B]
        /\ \E kind \in {"spawn", "mystery"} :
             tasks = SetToBag({[NewTask("swap", None, None, w, FALSE)
                                   EXCEPT !.pc = "visiting"] : w \in B})
                     (+) SetToBag({NewTask(kind, 1,
                                           IF kind = "spawn"
                                           THEN SpawnSecond(1) + NextHour - HOUR
                                           ELSE None,
                                           None, TRUE)})
    /\ waiters = [w \in Workers |-> <<>>]
    /\ lpc = "sleep"
    /\ initial = FALSE
    /\ bootstrap = FALSE
    /\ nspawns = NEvents
    /\ idx = 1
    /\ start_point = None
    /\ current_hour = NextHour
    /\ time_diff = TimeNow - (SpawnSecond(1) + NextHour)
    /\ mystery_point = None
    /\ wake = clock - time_diff
    /\ paused = FALSE
    /\ mysteries = <<>>
    /\ skipped = 0
    /\ visits = 0
    /\ redundant = 0
    /\ exceptions = 0
    /\ swap_at = Max(SWAP_OLDEST, MINIMUM_RUNTIME)
    /\ stopping = "no"

\* the workers move: travel_speed gives other results from now on
Travel ==
    /\ \E c \in CostMaps : c # cost /\ cost' = c
    /\ UNCHANGED <<poolVars, clock, qsize, maxc, store, syncVars, loopVars, countVars, swap_at,
                   stopping>>

NextSel ==
    \/ Tick(MaxTime)
    \/ Travel
    \/ \E r \in Live :
        \/ TryPointStart(r, cost)
        \/ TryPointPoll(r, cost)
        \/ \E result \in {"true", "false", "raise"} : TryPointVisited(r, result)
        \/ SwapDone(r)

SpecSel == InitSel /\ [][NextSel]_vars

\* ---- specification: the classification of one spawn ----
\* The launcher has computed time_diff for spawn idx and is about to classify
\* it; the sighting store holds any set of spawn ids; any number of permits is
\* out, each held by a visit under way.
InitDecide ==
    /\ PoolIdle
    /\ clock \in 0..MaxTime
    /\ qsize = 0
    /\ maxc = 0
    /\ store \in SUBSET Events
    /\ cost = [w \in Workers |-> 1]
    /\ \E k \in 0..COROUTINES_LIMIT :
        /\ k <= NWorkers
        /\ sem = COROUTINES_LIMIT - k
        /\ locked = [w \in Workers |-> w <= k]
        /\ tasks = SetToBag({[NewTask("mystery", 1, None, w, TRUE)
                                 EXCEPT !.pc = "visiting"] : w \in 1..k})
    /\ waiters = [w \in Workers |-> <<>>]
    /\ idx \in Events
    /\ current_hour = EpochOffset - StartSecond
    /\ time_diff = TimeNow - (SpawnSecond(idx) + current_hour)
    /\ lpc = IF time_diff < 0 THEN "decide" ELSE "drain"
    /\ initial = FALSE
    /\ bootstrap = FALSE
    /\ nspawns = NEvents
    /\ start_point = None
    /\ mystery_point = None
    /\ wake = 0
    /\ paused = FALSE
    /\ mysteries = <<>>
    /\ skipped = 0
    /\ visits = 0
    /\ redundant = 0
    /\ exceptions = 0
    /\ swap_at = Max(SWAP_OLDEST, MINIMUM_RUNTIME)
    /\ stopping = "no"

NextDecide == Decide(idx \in store)

SpecDecide == InitDecide /\ [][NextDecide]_vars

\* ---- specification: the mystery backlog ----
\* The launcher has reached a spawn of the next hour, far from due, with an
\* empty backlog and every permit free; SPAWNS.get_mysteries() returns the
\* known mystery points in their order, or nothing.  Launcher steps are taken
\* whenever they stay possible: the event loop runs a coroutine that is ready.
NPoints == NMysteries + 1
BacklogRefills == {<<>>, [i \in 1..NPoints |-> i]}

InitBacklog ==
    /\ PoolIdle
    /\ clock = 0
    /\ qsize = 0
    /\ maxc = 0
    /\ store = {}
    /\ cost = [w \in Workers |-> 1]
    /\ sem = COROUTINES_LIMIT
    /\ locked = [w \in Workers |-> FALSE]
    /\ waiters = [w \in Workers |-> <<>>]
    /\ tasks = EmptyBag
    /\ lpc = "drain"
    /\ initial = FALSE
    /\ bootstrap = FALSE
    /\ nspawns = NEvents
    /\ idx = 1
    /\ start_point = None
    /\ current_hour = NextHour
    /\ time_diff = TimeNow - (SpawnSecond(1) + NextHour)
    /\ mystery_point = None
    /\ wake = 0
    /\ paused = FALSE
    /\ mysteries = <<>>
    /\ skipped = 0
    /\ visits = 0
    /\ redundant = 0
    /\ exceptions = 0
    /\ swap_at = Max(SWAP_OLDEST, MINIMUM_RUNTIME)
    /\ stopping = "no"

DrainNext ==
    \/ Drain
    \/ \E m \in BacklogRefills : Refill(m)
    \/ AcquiredMystery
    \/ Decide(FALSE)

NextBacklog ==
    \/ Tick(MaxTime)
    \/ DrainNext
    \/ TryPointNext

SpecBacklog == InitBacklog /\ [][NextBacklog]_vars /\ WF_vars(DrainNext)

\* ---- specification: cancellation at every await ----
\* From a cold start to shutdown, without the swap timer; Overseer.start may
\* have left an account that needs a captcha on the queue, which stands still.
InitCancel ==
    /\ PoolIdle
    /\ clock = 0
    /\ qsize \in {0, 1}
    /\ maxc = 0
    /\ store = {}
    /\ cost = [w \in Workers |-> 1]
    /\ sem = COROUTINES_LIMIT
    /\ locked = [w \in Workers |-> FALSE]
    /\ waiters = [w \in Workers |-> <<>>]
    /\ tasks = EmptyBag
    /\ lpc = "refresh"
    /\ initial = TRUE
    /\ bootstrap = FALSE
    /\ nspawns = 0
    /\ idx = 0
    /\ start_point = None
    /\ current_hour = 0
    /\ time_diff = 0
    /\ mystery_point = None
    /\ wake = 0
    /\ paused = FALSE
    /\ mysteries = <<>>
    /\ skipped = 0
    /\ visits = 0
    /\ redundant = 0
    /\ exceptions = 0
    /\ swap_at = Max(SWAP_OLDEST, MINIMUM_RUNTIME)
    /\ stopping = "no"

NextCancel ==
    \/ Tick(MaxTimeAll)
    \/ \E n \in (IF initial THEN {0} ELSE {}) \cup {NEvents} : Refreshed(n)
    \/ LoopNext
    \/ BackpressureNext
    \/ TryPointNext
    \/ LockNext
    \/ BootNext
    \/ StopNext

SpecCancel == InitCancel /\ [][NextCancel]_vars

\* ---- specification: cold start and steady state ----
\* launch(bootstrap, pickle) is called with or without a forced bootstrap; the
\* first refresh finds spawns or none.
InitBoot ==
    /\ PoolIdle
    /\ clock = 0
    /\ qsize = 0
    /\ maxc = 0
    /\ store = {}
    /\ cost = [w \in Workers |-> 1]
    /\ sem = COROUTINES_LIMIT
    /\ locked = [w \in Workers |-> FALSE]
    /\ waiters = [w \in Workers |-> <<>>]
    /\ tasks = EmptyBag
    /\ lpc = "refresh"
    /\ initial = TRUE
    /\ bootstrap \in BOOLEAN
    /\ nspawns = 0
    /\ idx = 0
    /\ start_point = None
    /\ current_hour = 0
    /\ time_diff = 0
    /\ mystery_point = None
    /\ wake = 0
    /\ paused = FALSE
    /\ mysteries = <<>>
    /\ skipped = 0
    /\ visits = 0
    /\ redundant = 0
    /\ exceptions = 0
    /\ swap_at = Max(SWAP_OLDEST, MINIMUM_RUNTIME)
    /\ stopping = "no"

NextBoot ==
    \/ Tick(MaxTimeAll)
    \/ \E n \in (IF initial THEN {0} ELSE {}) \cup {NEvents} : Refreshed(n)
    \/ LoopNext
    \/ TryPointNext
    \/ LockNext
    \/ BootNext

SpecBoot == InitBoot /\ [][NextBoot]_vars

\* ---- specification: best_worker with must_visit ----
\* The launcher waits in the gather of bootstrap_two; the bootstrap_try tasks
\* have just been created; the workers of any subset of the pool are busy in
\* a swap; the costs are any, and change as the workers travel.
InitMust ==
    /\ PoolIdle
    /\ clock = 0
    /\ qsize = 0
    /\ maxc = 0
    /\ store = {}
    /\ cost \in CostMaps
    /\ sem = COROUTINES_LIMIT
    /\ \E B \in SUBSET Workers :
        /\ locked = [w \in Workers |-> w \in B]
        /\ tasks = SetToBag({[NewTask("swap", None, None, w, FALSE)
                                 EXCEPT !.pc = "visiting"] : w \in B})
                   (+) [r \in {NewTask("boot2", None, None, None, FALSE)}
                          |-> NBootPoints]
    /\ waiters = [w \in Workers |-> <<>>]
    /\ lpc = "boot2"
    /\ initial = TRUE
    /\ bootstrap = FALSE
    /\ nspawns = 0
    /\ idx = 0
    /\ start_point = None
    /\ current_hour = 0
    /\ time_diff = 0
    /\ mystery_point = None
    /\ wake = 0
    /\ paused = FALSE
    /\ mysteries = <<>>
    /\ skipped = 0
    /\ visits = 0
    /\ redundant = 0
    /\ exceptions = 0
    /\ swap_at = Max(SWAP_OLDEST, MINIMUM_RUNTIME)
    /\ stopping = "no"

NextMust ==
    \/ Tick(MaxTime)
    \/ Travel
    \/ \E r \in Live :
        \/ BootStart(r, cost)
        \/ BootPoll(r, cost)
        \/ \E result \in {"true", "false", "raise"} : BootVisited(r, result)
        \/ SwapDone(r)

SpecMust == InitMust /\ [][NextMust]_vars

\* ---- specification: a visit task that gets no worker ----
\* As for best_worker over every pool, with a backlog that may hold another
\* point; the spawn time of a spawn task is one the monotonic clock can pass,
\* as on a host whose wall clock reads about what its monotonic clock reads
\* (elsewhere the deadline of a spawn task does not pass).
EarlySpawnTime == 1

InitNone ==
    /\ PoolIdle
    /\ clock = 0
    /\ qsize = 0
    /\ maxc = 0
    /\ store = {}
    /\ cost \in CostMaps
    /\ sem = COROUTINES_LIMIT - 1
    /\ \E B \in BusySets :
        /\ locked = [w \in Workers |-> w \in B]
        /\ \E kind \in {"spawn", "mystery"} :
             tasks = SetToBag({[NewTask("swap", None, None, w, FALSE)
                                   EXCEPT !.pc = "visiting"] : w \in B})
                     (+) SetToBag({NewTask(kind, 1,
                                           IF kind = "spawn" THEN EarlySpawnTime
                                           ELSE None,
                                           None, TRUE)})
    /\ waiters = [w \in Workers |-> <<>>]
    /\ lpc = "sleep"
    /\ initial = FALSE
    /\ bootstrap = FALSE
    /\ nspawns = NEvents
    /\ idx = 1
    /\ start_point = None
    /\ current_hour = NextHour
    /\ time_diff = TimeNow - (SpawnSecond(1) + NextHour)
    /\ mystery_point = None
    /\ wake = clock - time_diff
    /\ paused = FALSE
    /\ mysteries \in {<<>>, <<NPoints>>}
    /\ skipped = 0
    /\ visits = 0
    /\ redundant = 0
    /\ exceptions = 0
    /\ swap_at = Max(SWAP_OLDEST, MINIMUM_RUNTIME)
    /\ stopping = "no"

SpecNone == InitNone /\ [][NextSel]_vars

\* ---- specification: every visit fails ----
\* The steady state with workers whose visits all raise, and with exceptions
\* raised before the visit as well.
NextFault ==
    \/ Tick(MaxTime)
    \/ Refreshed(NEvents)
    \/ \E operational \in BOOLEAN : RefreshFailed(operational)
    \/ BackoffOver
    \/ Dumped
    \/ Event(FALSE)
    \/ Drain
    \/ \E m \in MysteryLists : Refill(m)
    \/ AcquiredMystery
    \/ \E seen \in BOOLEAN : Decide(seen)
    \/ SleepOver
    \/ AcquiredSpawn
    \/ \E r \in Live :
        \/ \E c \in CostMaps : TryPointStart(r, c)
        \/ \E c \in CostMaps : TryPointPoll(r, c)
        \/ TryPointFault(r)
        \/ TryPointVisited(r, "raise")

SpecFault == InitAll /\ [][NextFault]_vars

\* ---- specification: shutdown ----
\* The steady state, a stop signal at any await of the launcher, and cleanup
\* to the closing of the loop.  The steps of cleanup are taken when they stay
\* possible: the timer of wait_for fires, the pickles are written, and the
\* database processor empties its queue once stopped.
CleanupNext ==
    \/ Timeout
    \/ Gathered
    \/ Abandoned
    \/ \E ok \in BOOLEAN : Pickled(ok)
    \/ DbQueueEmpty

NextStop ==
    \/ Tick(MaxTimeAll)
    \/ Refreshed(NEvents)
    \/ LoopNext
    \/ TryPointNext
    \/ Stop
    \/ Exit
    \/ \E r \in Live : TaskCancelled(r)
    \/ CleanupNext

SpecStop == InitAll /\ [][NextStop]_vars /\ WF_vars(CleanupNext)

\* ---- Overseer.start ----
\* an entry of ACCOUNTS: account.get('banned') and account.get('captcha') as
\* truth values (a missing key reads as false)
Account == [banned : BOOLEAN, captcha : BOOLEAN]

RECURSIVE TablesOf(_)
TablesOf(n) == IF n = 0 THEN {<<>>}
               ELSE {Append(t, a) : t \in TablesOf(n - 1), a \in Account}

\* the account tables of up to NAccounts usernames
AccountTables == UNION {TablesOf(n) : n \in 0..NAccounts}

\* the routing that checks the verification flag first
RouteCaptchaFirst(account) ==
    IF account.captcha THEN "captcha"
    ELSE IF account.banned THEN "neither" ELSE "extra"

\* the branch of the loop body an account takes
Route(account) ==
    IF account.banned THEN "neither"
    ELSE IF account.captcha THEN "captcha" ELSE "extra"

\* one pass of the loop over ACCOUNTS.items(): the next username is handled
StartAccount ==
    /\ lpc = "start"
    /\ routed < Len(accounts)
    /\ LET username == routed + 1
           to == Route(accounts[username])
       IN  /\ captcha_queue' = IF to = "captcha" THEN Append(captcha_queue, username)
                               ELSE captcha_queue
           /\ extra_queue' = IF to = "extra" THEN Append(extra_queue, username)
                             ELSE extra_queue
    /\ qsize' = Len(captcha_queue')
    /\ routed' = routed + 1
    /\ UNCHANGED <<accounts, start_time, clock, maxc, store, cost, syncVars, loopVars,
                   countVars, swap_at, stopping>>

\* the loop is over: the workers are created, none with a session yet, and the
\* timer of swap_oldest is armed
Started ==
    /\ lpc = "start"
    /\ routed = Len(accounts)
    /\ start_time' = [w \in Workers |-> None]
    /\ swap_at' = clock + Max(SWAP_OLDEST, MINIMUM_RUNTIME)
    /\ lpc' = "refresh"
    /\ UNCHANGED <<accounts, routed, captcha_queue, extra_queue, envVars, syncVars,
                   countVars, stopping, initial, bootstrap, nspawns, idx, start_point,
                   current_hour, time_diff, mystery_point, wake, paused, exceptions>>

\* ---- specification: startup ----
\* Every account table of up to NAccounts usernames, before Overseer.start.
InitStart ==
    /\ accounts \in AccountTables
    /\ routed = 0
    /\ captcha_queue = <<>>
    /\ extra_queue = <<>>
    /\ start_time = [w \in Workers |-> None]
    /\ clock = 0
    /\ qsize = 0
    /\ maxc = 0
    /\ store = {}
    /\ cost = [w \in Workers |-> 1]
    /\ sem = COROUTINES_LIMIT
    /\ locked = [w \in Workers |-> FALSE]
    /\ waiters = [w \in Workers |-> <<>>]
    /\ tasks = EmptyBag
    /\ lpc = "start"
    /\ initial = TRUE
    /\ bootstrap = FALSE
    /\ nspawns = 0
    /\ idx = 0
    /\ start_point = None
    /\ current_hour = 0
    /\ time_diff = 0
    /\ mystery_point = None
    /\ wake = 0
    /\ paused = FALSE
    /\ mysteries = <<>>
    /\ skipped = 0
    /\ visits = 0
    /\ redundant = 0
    /\ exceptions = 0
    /\ swap_at = None
    /\ stopping = "no"

NextStart ==
    \/ StartAccount
    \/ Started

SpecStart == InitStart /\ [][NextStart]_vars

\* ---- specification: the stale-session timer ----
\* A state of the run with the launcher parked at an await: in the
\* backpressure wait (paused) or in the refresh.  The workers hold the first
\* accounts of the table and the spare one is in extra_queue or in use; every
\* worker has no session yet or one begun SessionAges seconds ago; the timer is
\* due within SWAP_OLDEST seconds.
SessionAges == {0, 59, 60}

InitSwap ==
    /\ accounts = [u \in 1..NAccounts |-> [banned |-> FALSE, captcha |-> FALSE]]
    /\ routed = NAccounts
    /\ captcha_queue = <<>>
    /\ extra_queue \in {<<>>, <<NAccounts>>}
    /\ start_time \in [Workers -> {None} \cup
                          {(EpochOffset - a) * MsPerSecond : a \in SessionAges}]
    /\ clock = 0
    /\ paused \in BOOLEAN
    /\ qsize = IF paused THEN 1 ELSE 0
    /\ maxc = 0
    /\ store = {}
    /\ cost = [w \in Workers |-> 1]
    /\ sem = COROUTINES_LIMIT
    /\ locked = [w \in Workers |-> FALSE]
    /\ waiters = [w \in Workers |-> <<>>]
    /\ tasks = EmptyBag
    /\ lpc = IF paused THEN "bp_wait" ELSE "refresh"
    /\ initial = FALSE
    /\ bootstrap = FALSE
    /\ nspawns = 0
    /\ idx = 0
    /\ start_point = None
    /\ current_hour = 0
    /\ time_diff = 0
    /\ mystery_point = None
    /\ wake = 0
    /\ mysteries = <<>>
    /\ skipped = 0
    /\ visits = 0
    /\ redundant = 0
    /\ exceptions = 0
    /\ swap_at \in 0..SWAP_OLDEST
    /\ stopping = "no"

NextSwap ==
    \/ Tick(MaxTime)
    \/ \E w \in Workers : SessionStarted(w)
    \/ swap_oldest
    \/ \E r \in Live : SwapStart(r)
    \/ \E r \in Live : SwapDone(r)
    \/ LockNext

SpecSwap == InitSwap /\ [][NextSwap]_vars

\* ---- specification: the seek of the first pass ----
\* A cold start with NEvents or one more spawn loaded: with the extra spawn the
\* run begins after the second spawn of the hour and before its last.
SeekSizes == {NEvents, NEvents + 1}

NextSeek ==
    \/ Tick(MaxTime)
    \/ \E n \in SeekSizes : Refreshed(n)
    \/ LoopNext
    \/ TryPointNext

SpecSeek == InitAll /\ [][NextSeek]_vars

\* ---- specification: permits and locks, to the end of every wait ----
\* A cold start, with bootstrap when no spawn is known, the dispatch loop with no failing
\* call, the visit tasks, the bootstrap tasks and the swaps.  Tasks run between
\* the steps of the launcher, so a task step is possible again and again
\* rather than all the time: the event loop runs every step that is possible
\* again and again; the clock advances; every visit, bootstrap visit and swap
\* comes to its end.
LaunchNext ==
    \/ Dumped
    \/ Event(FALSE)
    \/ Refill(<<>>)
    \/ Decide(FALSE)
    \/ SleepOver
    \/ AcquiredSpawn

VisitNext ==
    \E r \in Live :
        \/ \E c \in CostMaps : TryPointStart(r, c)
        \/ \E c \in CostMaps : TryPointPoll(r, c)
        \/ TryPointVisited(r, "false")

BootTaskNext ==
    \E r \in Live :
        \/ \E c \in CostMaps : BootStart(r, c)
        \/ \E c \in CostMaps : BootPoll(r, c)
        \/ BootVisited(r, "false")

BootLaunchNext == BootOneNext \/ Settled \/ BootTwoDone

SwapTaskNext == \E r \in Live : SwapStart(r) \/ SwapDone(r)

NextOrder ==
    \/ Tick(MaxTimeAll)
    \/ \E n \in (IF initial THEN {0} ELSE {}) \cup {NEvents} : Refreshed(n)
    \/ LaunchNext
    \/ VisitNext
    \/ LockNext
    \/ BootLaunchNext
    \/ BootTaskNext
    \/ \E w \in Workers : SwapOldest(FALSE, w, TRUE)
    \/ SwapTaskNext

SpecOrder ==
    /\ InitAll
    /\ [][NextOrder]_vars
    /\ SF_vars(Tick(MaxTimeAll))
    /\ SF_vars(LaunchNext)
    /\ SF_vars(BootLaunchNext)
    /\ SF_vars(VisitNext)
    /\ SF_vars(BootTaskNext)
    /\ SF_vars(SwapTaskNext)
    /\ \A w \in Workers : SF_vars(LockAcquired(w))

\* ---- admission, mutual exclusion, permits ----

\* C1: in every reachable state the tasks holding an admission permit (spawn and
\* mystery visits, bootstrap phase one and two, counted together) are at most
\* COROUTINES_LIMIT, every one of them is backed by a permit taken from the
\* semaphore, and every task inside a visit or bootstrap visit holds a permit.
C1_AdmissionBound ==
    /\ sem >= 0
    /\ PermitsHeld <= COROUTINES_LIMIT - sem
    /\ \A r \in Live : (r.pc = "visiting" /\ r.kind # "swap") => HoldsPermit(r)

\* the bound is met: every permit is held and the launcher waits for one
C1_Witness ==
    /\ PermitsHeld = COROUTINES_LIMIT
    /\ lpc \in {"acq_s", "acq_m"}
    /\ \E r \in Live : r.pc = "visiting" /\ r.kind \in {"spawn", "mystery"}

\* C2: in every reachable state at most one task is inside the locked section
\* of each worker (spawn visits, mystery visits, bootstrap visits and swaps
\* alike), and the lock is held exactly when a task is inside.
C2_MutualExclusion ==
    \A w \in Workers : InLock(w) <= 1 /\ (locked[w] <=> InLock(w) = 1)

\* a task is inside worker w's section while a task of another kind queues for it
C2_Witness ==
    \E w \in Workers :
        /\ InLock(w) = 1
        /\ waiters[w] # <<>>
        /\ \E r \in Live : r.pc = "visiting" /\ r.w = w /\ r.kind # Head(waiters[w]).kind

\* C3: every task dispatched under a permit gives it back exactly once on every
\* exit path, a cancellation before its first step included: available permits
\* plus permits held is COROUTINES_LIMIT in every state, and the available
\* count never exceeds COROUTINES_LIMIT.
C3_PermitsConserved ==
    /\ sem + PermitsHeld = COROUTINES_LIMIT
    /\ sem <= COROUTINES_LIMIT

\* ---- worker selection ----
\* the idle workers one pass of best_worker looks at: those not preceded, in
\* pool order, by an idle worker whose cost is below GOOD_ENOUGH
ScannedIdle ==
    {v \in Workers :
        /\ ~locked[v]
        /\ \A u \in 1..(v - 1) :
              locked[u] \/ GOOD_ENOUGH = None \/ cost[u] >= GOOD_ENOUGH}

\* task r as it is once best_worker has returned worker w to it
Chosen(r, w) == [r EXCEPT !.pc = "visiting", !.w = w, !.st = None, !.t0 = None]

\* this step, best_worker returns worker w to the try_point task r
Selects(r, w) ==
    /\ r.pc \in {"created", "sleeping"}
    /\ r.kind \in {"spawn", "mystery"}
    /\ CopiesIn(r, tasks') = CopiesIn(r, tasks) - 1
    /\ CopiesIn(Chosen(r, w), tasks') = CopiesIn(Chosen(r, w), tasks) + 1

\* this step, best_worker returns None to the try_point task r
GivesUp(r) ==
    /\ r.pc \in {"created", "sleeping"}
    /\ r.kind \in {"spawn", "mystery"}
    /\ CopiesIn(r, tasks') = CopiesIn(r, tasks) - 1
    /\ BagCardinality(tasks') = BagCardinality(tasks) - 1

\* C4: whenever best_worker returns a worker, that worker was idle in the scan
\* that selected it, its cost is below SPEED_LIMIT, and its cost is the least
\* among the idle workers scanned in that pass (up to the end of the pool or to
\* the first idle worker below GOOD_ENOUGH).
C4_SelectorCorrect ==
    [][\A r \in Live : \A w \in Workers :
          Selects(r, w) =>
             /\ w \in ScannedIdle
             /\ cost[w] < SPEED_LIMIT
             /\ \A v \in ScannedIdle : cost[w] <= cost[v]]_vars

\* both workers idle with costs 3 and 7: the task visits with the worker of cost 3
C4_Witness ==
    /\ clock = 0
    /\ cost[1] = 3 /\ cost[2] = 7
    /\ locked[1] /\ ~locked[2]
    /\ \E r \in Live : r.pc = "visiting" /\ r.kind = "spawn" /\ r.w = 1

\* C5: best_worker returns None only at a poll made past the deadline fixed
\* when it was entered, after a scan that found no idle worker with a cost below
\* SPEED_LIMIT; before the deadline it sleeps and scans again.
C5_NoneOnlyPastDeadline ==
    [][\A r \in Live :
          GivesUp(r) =>
             /\ r.pc = "sleeping"
             /\ Monotonic > SkipTime(r.t0, r.st, FALSE)
             /\ \A w \in Workers : ~locked[w] => cost[w] >= SPEED_LIMIT]_vars

\* a mystery point was given up after its deadline and queued again
C5_Witness ==
    /\ mysteries # <<>>
    /\ clock > GIVE_UP_UNKNOWN
    /\ \A r \in Live : r.kind = "swap"

\* C6: a spawn task for which no idle worker is ever below SPEED_LIMIT gives
\* up at the first poll past max(time of the call + GIVE_UP_KNOWN, spawn_time),
\* both read on the clock the poll reads: at such a poll best_worker does not
\* go back to sleep.
C6_KnownDeadline ==
    \A r \in Live :
        (/\ r.kind = "spawn"
         /\ r.pc = "sleeping"
         /\ TimeNow > Max(EpochOffset + r.t0 + GIVE_UP_KNOWN, r.st))
        => \A c \in CostMaps :
              BestWorkerPass(c, SkipTime(r.t0, r.st, FALSE)).res # "sleep"

\* ---- backpressure ----
\* C7: while the captcha queue is larger than MAX_CAPTCHAS the launcher creates
\* no visit task, for a spawn or for a mystery point, whenever the queue grew.
C7_NoDispatchOverCeiling ==
    [][qsize > maxc => NTasks' <= NTasks]_vars

\* C8: once paused, full_wait(MAX_CAPTCHAS) returns and the loop goes on only
\* with the queue size below the ceiling, for every ceiling >= 0.
C8_ResumeBelowCeiling ==
    [][(lpc = "bp_wait" /\ lpc' = "drain") => qsize < maxc]_vars

\* ---- classification ----
\* the launcher is at the if/elif chain that follows the mystery loop
AtDecide == lpc = "decide" \/ (lpc = "drain" /\ time_diff >= 0)

\* the spawn is dispatched: a permit is taken and its try_point task created,
\* or the launcher waits in acquire for a permit
Dispatched ==
    /\ skipped' = skipped
    /\ redundant' = redundant
    /\ IF sem > 0
       THEN /\ sem' = sem - 1
            /\ tasks' = Put(tasks, NewTask("spawn", idx, SpawnSecond(idx) + current_hour,
                                           None, TRUE))
       ELSE /\ lpc' = "acq_s"
            /\ sem' = sem
            /\ tasks' = tasks

\* C9: a spawn classified with time_diff > 5 whose id is in the sighting store
\* is counted redundant: redundant grows by one, skipped is unchanged, no permit
\* is taken and no task created - also when time_diff > SKIP_SPAWN.
C9_Redundant ==
    [][(AtDecide /\ time_diff > 5 /\ idx \in store) =>
          /\ redundant' = redundant + 1
          /\ skipped' = skipped
          /\ sem' = sem
          /\ tasks' = tasks
          /\ lpc' \in {"event", "refresh"}]_vars

\* a spawn later than SKIP_SPAWN and already seen has been counted redundant
C9_Witness ==
    /\ ~AtDecide
    /\ lpc \in {"event", "refresh"}
    /\ time_diff > SKIP_SPAWN
    /\ redundant = 1
    /\ skipped = 0

\* C10: a spawn classified with time_diff > SKIP_SPAWN is never dispatched, and
\* unless it is redundant skipped grows by exactly one; a spawn that is not
\* redundant with 0 <= time_diff <= SKIP_SPAWN is dispatched.
C10_SkipOrDispatch ==
    [][AtDecide =>
          /\ time_diff > SKIP_SPAWN =>
                /\ sem' = sem
                /\ tasks' = tasks
                /\ lpc' \in {"event", "refresh"}
                /\ idx \notin store => skipped' = skipped + 1 /\ redundant' = redundant
          /\ (/\ 0 <= time_diff
              /\ time_diff <= SKIP_SPAWN
              /\ ~(time_diff > 5 /\ idx \in store)) => Dispatched]_vars

\* a spawn later than SKIP_SPAWN and not seen has been counted skipped
C10_Witness ==
    /\ ~AtDecide
    /\ lpc \in {"event", "refresh"}
    /\ time_diff > SKIP_SPAWN
    /\ skipped = 1
    /\ redundant = 0

\* ---- waiting for a spawn that is not due ----
\* the launcher creates the try_point task of spawn idx in this step
SpawnCreated ==
    \E r \in BagToSet(tasks') :
        /\ r.kind = "spawn"
        /\ r.pc = "created"
        /\ r.pt = idx
        /\ CopiesIn(r, tasks') > CopiesIn(r, tasks)

\* C11: the try_point task of a spawn is created only once the spawn is due,
\* that is with time.time() - spawn_time >= 0: a spawn found ahead of time with
\* no mystery point to visit is slept out first.
C11_NotBeforeDue ==
    [][SpawnCreated => TimeDiff(idx) >= 0]_vars

\* ---- the mystery backlog ----
\* a try_point task for mystery point p has just been created
Redispatched(p) ==
    \E r \in Live : r.kind = "mystery" /\ r.pt = p /\ r.pc = "created"

\* the launcher takes the point at the front and dispatches it, or holds it
\* while it waits for a permit
PopsFront ==
    /\ mysteries # <<>>
    /\ mysteries' = Tail(mysteries)
    /\ \/ mystery_point' = Head(mysteries)
       \/ \E r \in BagToSet(tasks') :
             /\ r.kind = "mystery" /\ r.pt = Head(mysteries) /\ r.pc = "created"
             /\ CopiesIn(r, tasks') > CopiesIn(r, tasks)

\* a task without spawn time that got no worker ends and its point goes to the back
PushesBack ==
    \E r \in Live :
        /\ r.kind = "mystery"
        /\ r.st = None
        /\ tasks' = Take(tasks, r)
        /\ mysteries' = Append(mysteries, r.pt)

\* the empty backlog is replaced by what the spawn source returns
Refills == lpc = "drain" /\ mysteries = <<>>

\* the launcher keeps reaching a spawn that is not due yet
KeepsDraining == []<>(lpc = "drain" /\ time_diff < 0)

\* C12: the backlog is first in, first out: every step leaves it alone, takes
\* its front point for dispatch, puts the point of a failed task without spawn
\* time at its back, or refills it when empty; and a point in the backlog is
\* dispatched (again) whenever the launcher keeps reaching spawns not yet due.
C12_BacklogFifo ==
    /\ [][mysteries' = mysteries \/ PopsFront \/ PushesBack \/ Refills]_vars
    /\ KeepsDraining =>
          \A p \in 1..NPoints :
              (\E i \in 1..Len(mysteries) : mysteries[i] = p) ~> Redispatched(p)

\* point 1 was returned to the backlog behind point 2, and point 2 has been
\* dispatched from the front while point 1 waits
C12_Witness ==
    /\ lpc = "drain"
    /\ clock >= GIVE_UP_UNKNOWN + 1
    /\ mysteries = <<1>>
    /\ Redispatched(2)

\* ---- faults and cancellation ----
\* C13: an exception that leaves _launch is counted and logged by launch, and
\* launch then runs the dispatch loop again; it ends only once more than
\* MAX_FAULTS exceptions have been counted.
C13_LaunchRetries ==
    [][(exceptions' = exceptions + 1 /\ exceptions' <= MAX_FAULTS)
          => lpc' # "returned"]_vars

\* the launcher has been cancelled and launch has returned
LauncherCancelled == lpc \in {"cancelled", "cancelled_g"}

\* CancelledError is on its way to task r
CancelReached(r) == stopping = "cancel" \/ Cancelling(r)

\* C14: a cancellation at any await of the launcher ends launch without being
\* counted or retried; the cancelled launcher refreshes, dispatches and
\* bootstraps nothing any more; a cancelled task ends without visit, skip,
\* push-back or lock.
C14_CancellationPropagates ==
    [][/\ (stopping = "no" /\ stopping' # "no" /\ lpc # "returned") =>
             /\ LauncherCancelled'
             /\ exceptions' = exceptions
             /\ syncVars' = syncVars
       /\ LauncherCancelled =>
             /\ loopVars' = loopVars
             /\ \A r \in BagToSet(tasks') :
                   (r.pc = "created" /\ r.kind # "swap")
                      => CopiesIn(r, tasks') <= CopiesIn(r, tasks)
       /\ \A r \in Live :
             (CancelReached(r) /\ CopiesIn(r, tasks') < CopiesIn(r, tasks)) =>
                /\ NTasks' = NTasks - 1
                /\ countVars' = countVars
                /\ \A w \in Workers : locked'[w] => locked[w]]_vars

\* the launcher was cancelled in the backpressure wait, cleanup timed out, and
\* every pending task has been cancelled
C14_Witness ==
    /\ lpc = "cancelled"
    /\ paused
    /\ stopping = "cancel"
    /\ NTasks = 0

\* C15: a failure of SPAWNS.update before the first successful load ends the
\* dispatch loop, whatever was raised; a later failure is followed by the
\* backoff sleep, and the backoff only by another refresh.
C15_RefreshFailure ==
    [][/\ (lpc = "refresh" /\ lpc' \in {"returned", "backoff"}) =>
             lpc' = (IF initial THEN "returned" ELSE "backoff")
       /\ (lpc = "backoff" /\ lpc' # lpc) => lpc' = "refresh"]_vars

\* ---- bootstrap ----
\* the launcher is inside bootstrap_two, waiting in asyncio.gather
InGather == lpc \in {"boot2", "boot2x"}

\* C16: bootstrap_two, and bootstrap with it, returns only when no
\* bootstrap_try task is left unfinished, also after one of them has raised.
C16_PhaseTwoBarrier ==
    [][(InGather /\ ~InGather' /\ ~LauncherCancelled') => BootTwoLeft = 0]_vars

\* the launcher is inside Overseer.bootstrap
InBootstrap == lpc \in {"boot1", "settle", "boot2", "boot2x"}

\* a task of one of these kinds is created in this step
Creates(kinds) ==
    \E r \in BagToSet(tasks') :
        /\ r.kind \in kinds
        /\ r.pc = "created"
        /\ CopiesIn(r, tasks') > CopiesIn(r, tasks)

\* C17: a pass whose refresh found no spawns, or the first pass of a launch
\* with a forced bootstrap, enters bootstrap, and no other pass does; bootstrap
\* tasks are created only inside bootstrap and no try_point task is created,
\* for a spawn or a mystery point, until bootstrap has returned.
C17_ColdStartFirst ==
    [][/\ (lpc = "refresh" /\ lpc' \notin {"refresh", "backoff", "returned"}) =>
             ((nspawns' = 0 \/ bootstrap) <=> InBootstrap')
       /\ Creates({"boot1", "boot2"}) => InBootstrap
       /\ Creates({"spawn", "mystery"}) => ~InBootstrap /\ ~InBootstrap'
       /\ (InBootstrap /\ ~InBootstrap') => lpc = "boot2" \/ lpc = "boot2x"]_vars

\* after a forced bootstrap the same pass has dispatched a spawn
C17_Witness ==
    /\ bootstrap
    /\ nspawns > 0
    /\ ~InBootstrap
    /\ \E r \in Live : r.kind = "spawn"

\* the bootstrap_try tasks of every coverage point are created in this step
StartsPhaseTwo ==
    /\ lpc' = "boot2"
    /\ BootTwoLeft' = BootTwoLeft + NBootPoints

\* C18: phase one ends, with or without a fault, in the start of phase two; a
\* fault of phase two (gather raised) ends in the hour pass of _launch; no fault
\* of bootstrap reaches launch; only a cancellation ends bootstrap otherwise,
\* and it starts no phase two.
C18_BootstrapFaults ==
    [][/\ (lpc \in {"boot1", "settle"} /\ lpc' \notin {"boot1", "settle"}) =>
             \/ StartsPhaseTwo
             \/ LauncherCancelled' /\ BootTwoLeft' = BootTwoLeft
       /\ (InGather /\ ~InGather') =>
             \/ lpc' \in {"refresh", "dump", "event"} /\ stopping' = "no"
             \/ LauncherCancelled' /\ stopping' = "drain"
       /\ InBootstrap => exceptions' = exceptions]_vars

\* phase two raised while a bootstrap_try task was pending, and the launcher
\* is back in its loop
C18_Witness ==
    /\ ~InBootstrap
    /\ ~LauncherCancelled
    /\ lpc # "returned"
    /\ stopping = "no"
    /\ exceptions = 0
    /\ BootTwoLeft > 0

\* the bootstrap_try tasks that have a worker: in its lock or queued for it
BootTwoWithWorker ==
    CountIn({r \in Live : r.kind = "boot2" /\ r.pc = "visiting"}, tasks)
      + Cardinality({<<w, i>> \in Workers \X (1..(MaxTasks + NBootPoints)) :
                        i <= Len(waiters[w]) /\ waiters[w][i].kind = "boot2"})

\* task r runs its step of best_worker now
Scans(r) ==
    /\ r.kind = "boot2"
    /\ r.pc = "sleeping" \/ (r.pc \in {"created", "semwait"} /\ sem > 0)
    /\ CopiesIn(r, tasks') < CopiesIn(r, tasks)

\* C19: a bootstrap_try task ends only from a visit with a worker, never from a
\* best_worker that returned None, however long it polls; and a scan that
\* finds an idle worker with cost below SPEED_LIMIT gives the task that worker.
C19_MustVisit ==
    [][/\ BootTwoLeft' < BootTwoLeft =>
             \E r \in Live :
                /\ r.kind = "boot2" /\ r.pc = "visiting" /\ r.w \in Workers
                /\ CopiesIn(r, tasks') < CopiesIn(r, tasks)
       /\ BootTwoLeft' <= BootTwoLeft
       /\ \A r \in Live :
             (Scans(r) /\ BestScan(cost, locked).speed < SPEED_LIMIT) =>
                /\ BootTwoWithWorker' = BootTwoWithWorker + 1
                /\ locked'[BestScan(cost, locked).worker]]_vars

\* at the end of the horizon, past every give-up delay, one bootstrap_try task
\* still polls while the other has its worker
C19_Witness ==
    /\ clock = MaxTime
    /\ \E r \in Live : r.kind = "boot2" /\ r.pc = "sleeping"
    /\ \E r \in Live : r.kind = "boot2" /\ r.pc = "visiting"

\* ---- a visit task without worker ----
\* C20: the step in which best_worker returns None to a try_point task takes no
\* lock and counts no visit; with a spawn time skipped grows by one and the
\* backlog is unchanged; without one the point goes to the back of the backlog
\* and skipped is unchanged.
C20_NoWorkerFrame ==
    [][\A r \in Live :
          GivesUp(r) =>
             /\ visits' = visits
             /\ redundant' = redundant
             /\ locked' = locked
             /\ waiters' = waiters
             /\ IF r.st # None
                THEN skipped' = skipped + 1 /\ mysteries' = mysteries
                ELSE skipped' = skipped /\ mysteries' = Append(mysteries, r.pt)]_vars

\* a spawn task has given up: one skip counted, the backlog as it was
C20_Witness ==
    /\ skipped = 1
    /\ mysteries = <<NPoints>>
    /\ visits = 0
    /\ \A r \in Live : r.kind = "swap"

\* ---- faults of a visit task ----
\* the try_point task r ends in this step
Ends(r) ==
    /\ r.kind \in {"spawn", "mystery"}
    /\ CopiesIn(r, tasks') = CopiesIn(r, tasks) - 1
    /\ BagCardinality(tasks') = BagCardinality(tasks) - 1

\* C21: with visits that all raise, and exceptions before the visit, every
\* try_point task that ends gives its permit back, leaves its worker unlocked,
\* counts no visit and leaves the launcher and its exception count as they are;
\* every permit out is held by a live task.
C21_FaultConfined ==
    /\ [][\A r \in Live :
             Ends(r) =>
                /\ sem' = sem + 1
                /\ visits' = visits
                /\ r.pc = "visiting" => ~locked'[r.w]
                /\ \A w \in Workers : locked'[w] => locked[w]
                /\ loopVars' = loopVars]_vars
    /\ [](sem + PermitsHeld = COROUTINES_LIMIT)
    /\ [](\A w \in Workers : locked[w] <=> InLock(w) = 1)

\* the task of the first spawn has ended by a fault within the first second,
\* its permit is back, and the launcher has gone on to the second spawn
C21_Witness ==
    /\ lpc = "sleep"
    /\ idx = 2
    /\ clock = 0
    /\ tasks = EmptyBag
    /\ sem = COROUTINES_LIMIT
    /\ visits = 0
    /\ exceptions = 0

\* ---- shutdown ----
\* launch has ended: cancelled, or returned by itself
LaunchOver == lpc \in {"cancelled", "cancelled_g", "returned"}

Occurrences(q, u) == Cardinality({i \in 1..Len(q) : q[i] = u})

\* C23: Overseer.start routes every account of the table exactly once: a banned
\* account is in neither queue, a non-banned account needing verification is
\* once in the verification queue and not in the available queue, every other
\* account is once in the available queue and not in the verification queue; an
\* account not handled yet is in no queue; and after start the two queues
\* together hold as many entries as the table has non-banned accounts.
C23_StartRouting ==
    /\ \A u \in 1..Len(accounts) :
        LET inCaptcha == Occurrences(captcha_queue, u)
            inExtra == Occurrences(extra_queue, u)
        IN  IF u > routed \/ accounts[u].banned
            THEN inCaptcha = 0 /\ inExtra = 0
            ELSE IF accounts[u].captcha
                 THEN inCaptcha = 1 /\ inExtra = 0
                 ELSE inCaptcha = 0 /\ inExtra = 1
    /\ \A i \in 1..Len(captcha_queue) : captcha_queue[i] \in 1..routed
    /\ \A i \in 1..Len(extra_queue) : extra_queue[i] \in 1..routed
    /\ lpc # "start" =>
           Len(extra_queue) + Len(captcha_queue)
               = Cardinality({u \in 1..Len(accounts) : ~accounts[u].banned})

\* start has run over a table holding a banned account that also needs
\* verification, a non-banned one that needs verification and a plain one
C23_Witness ==
    /\ lpc = "refresh"
    /\ routed = NAccounts
    /\ \E u \in 1..NAccounts : accounts[u].banned /\ accounts[u].captcha
    /\ Len(captcha_queue) = 1
    /\ Len(extra_queue) = 1

\* the timer of swap_oldest fires in this step
Fires == swap_at' # swap_at
\* the workers with the oldest session
Oldests == {w \in WithSession : \A v \in WithSession : start_time[w] <= start_time[v]}
SwapScheduled(w) == tasks' = Put(tasks, NewTask("swap", None, None, w, FALSE))
\* one swap for a worker with the oldest session, when its age exceeds
\* MINIMUM_RUNTIME minutes and may holds; no task otherwise
SwapsOldestWhen(may) ==
    IF may /\ \E w \in Oldests : OldEnough(start_time[w])
    THEN \E w \in Oldests : SwapScheduled(w)
    ELSE tasks' = tasks

\* C24 as stated: every firing of the stale-session timer schedules exactly
\* one swap task, for a worker with the oldest start_time among the workers
\* with a session, whenever that worker's session age exceeds MINIMUM_RUNTIME,
\* and schedules nothing otherwise.
C24_SwapWheneverStale == [][Fires => SwapsOldestWhen(TRUE)]_vars

\* C24 amended: every firing of the stale-session timer schedules exactly one
\* swap task, for a worker with the oldest start_time among the workers with a
\* session, when the loop is not paused, extra_queue holds an account and that
\* worker's session age exceeds MINIMUM_RUNTIME; in every other case the
\* firing schedules nothing.
C24_SwapOldest == [][Fires => SwapsOldestWhen(~paused /\ extra_queue # <<>>)]_vars

\* a swap is pending for the worker with the older of two sessions
C24_Witness ==
    \E r \in Live :
        /\ r.kind = "swap"
        /\ \E v \in WithSession : start_time[r.w] < start_time[v]
        /\ r.w \in Oldests

\* C29: every firing of swap_oldest arms the timer again for SWAP_OLDEST later,
\* whatever the paused flag, the content of extra_queue and the workers'
\* start_time values, so a timer stays armed throughout the run.
C29_TimerRearmed == [][Fires => swap_at' = clock + SWAP_OLDEST]_vars

\* ---- the race for a worker ----

\* C25: a try_point task that best_worker gave a worker another task gets the
\* lock of first polls the selector again: no try_point task is ever queued on
\* a worker's lock, waiting to visit with the worker it lost.
C25_LosersRepoll ==
    \A w \in Workers : \A i \in 1..Len(waiters[w]) :
        waiters[w][i].kind \notin {"spawn", "mystery"}

\* ---- the seek of the first pass ----
\* seconds of the hour since spawn e
Since(e) == (TimeNow % HOUR) - SpawnSecond(e)
\* the spawns of the n loaded that came up earlier in the hour, and those that
\* came up less than 3 s ago
Earlier(n) == {e \in 1..n : Since(e) > 0}
JustNow(n) == {e \in Earlier(n) : Since(e) < 3}
\* the first spawn that came up less than 3 s ago, else the first of those
\* that came up last, else none
Nearest(n) ==
    IF JustNow(n) # {} THEN CHOOSE e \in JustNow(n) : \A f \in JustNow(n) : e <= f
    ELSE IF Earlier(n) = {} THEN None
    ELSE CHOOSE e \in Earlier(n) :
             \A f \in Earlier(n) : Since(e) < Since(f) \/ (Since(e) = Since(f) /\ e <= f)
\* the first hour pass begins in this step
FirstPassBegins == current_hour = 0 /\ current_hour' # 0
\* the first pass seeks to the nearest spawn, or starts at the first spawn
\* when there is none
SeeksNearest ==
    /\ start_point' = Nearest(nspawns')
    /\ initial' = (Nearest(nspawns') # None)
    /\ current_hour' = get_current_hour
\* the launcher is at a spawn ordered before the start point
BeforeStart == lpc = "event" /\ initial /\ idx # start_point
\* the rest of the claim: the spawns before the start point are passed over
\* with nothing dispatched and nothing counted, the seek ends at the start
\* point, and it is never taken up again
PassesOver ==
    /\ [][BeforeStart =>
             /\ lpc' = "event" /\ idx' = idx + 1 /\ initial'
             /\ UNCHANGED <<syncVars, countVars, paused>>]_vars
    /\ [][(lpc = "event" /\ initial /\ idx = start_point) => ~initial']_vars
    /\ [][~initial => ~initial']_vars
    /\ [](lpc = "event" /\ initial => start_point # None /\ idx <= start_point)

\* C26 as stated: the first hour pass always starts at the spawn get_start_point
\* describes (the first one up less than 3 s ago, else the one up last), or at
\* the first spawn when none came up earlier in the hour; the spawns before the
\* start point are passed over with no dispatch and no counter change; later
\* passes pass over nothing.
C26_SeekNearest ==
    /\ [][FirstPassBegins => SeeksNearest]_vars
    /\ PassesOver

\* C26 amended: as stated unless the time of hour is already past the last
\* spawn loaded; then the first pass is the pass of the next hour and starts at
\* its first spawn with no seek.
C26_ColdStartSeek ==
    /\ [][FirstPassBegins =>
             IF after_last(nspawns')
             THEN /\ ~initial'
                  /\ start_point' = None
                  /\ current_hour' = get_current_hour + HOUR
             ELSE SeeksNearest]_vars
    /\ PassesOver

\* the first spawn was passed over and the second, the start point, dispatched
C26_Witness ==
    /\ ~initial
    /\ idx = 2
    /\ nspawns > idx
    /\ skipped = 0 /\ redundant = 0
    /\ \E r \in Live : r.kind = "spawn" /\ r.pt = idx
    /\ \A r \in Live : r.pt # 1

\* ---- the paused flag ----

\* C27: paused is true exactly while the launcher is blocked in the
\* backpressure wait; when the wait ends, by returning or by a queue
\* connection error, paused is false before the next spawn is processed.
C27_PausedWhileWaiting == paused <=> lpc = "bp_wait"

\* ---- every spawn accounted for ----
\* the launcher is in the body of the for loop, at spawn idx
InBody == lpc \in {"event", "bp_wait", "drain", "acq_m", "decide", "sleep", "acq_s"}
\* the launcher leaves spawn idx in this step: next spawn, or next hour pass
Leaves == InBody /\ (idx' # idx \/ lpc' = "refresh")

\* C28: the processing of every spawn at or after the start point ends with
\* its try_point task created, or with redundant + 1, or with skipped + 1: no
\* spawn is left without a dispatch or a counter change.
C28_Accounted ==
    [][(Leaves /\ ~BeforeStart) =>
          \/ SpawnCreated /\ UNCHANGED <<skipped, redundant>>
          \/ redundant' = redundant + 1 /\ skipped' = skipped /\ tasks' = tasks
          \/ skipped' = skipped + 1 /\ redundant' = redundant /\ tasks' = tasks]_vars

\* ---- permits before locks ----
\* the tasks queued on worker w's lock
Queued(w) == {waiters[w][i] : i \in 1..Len(waiters[w])}
PermitKinds == {"spawn", "mystery", "boot1", "boot2"}
\* whoever is at a lock, inside or queued, came with its permit, except the
\* swaps, which have none; whoever waits for a permit is at no lock yet
PermitFirst ==
    /\ \A r \in Live :
          /\ r.pc = "visiting" => (r.permit <=> r.kind \in PermitKinds)
          /\ r.pc = "semwait" => ~r.permit /\ r.kind \in {"boot1", "boot2"}
          /\ r.kind = "swap" => ~r.permit
          /\ r.pc # "lockwait"
    /\ \A w \in Workers : \A r \in Queued(w) :
          /\ r.pc = "lockwait"
          /\ r.permit <=> r.kind \in PermitKinds
    /\ \A w \in Workers : locked[w] <=> \E r \in Live : r.pc = "visiting" /\ r.w = w
\* the run is cut short: inside a step of the launcher the model holds as many
\* tasks as it keeps, MaxTasks
CutShort == LoopRunning /\ NTasks >= MaxTasks
\* the launcher waiting for a permit gets it
LauncherAdmitted ==
    (lpc \in {"acq_s", "acq_m"}) ~> (lpc \notin {"acq_s", "acq_m"} \/ CutShort)
\* a bootstrap task waiting for a permit gets it
TasksAdmitted ==
    \A k \in {"boot1", "boot2"} :
        (\E r \in Live : r.kind = k /\ r.pc = "semwait")
            ~> ((\E r \in Live : r.kind = k /\ r.permit) \/ CutShort)
\* a task queued on a worker's lock gets into the locked section
WaitersServed ==
    \A w \in Workers : \A k \in PermitKinds \cup {"swap"} :
        (\E r \in Queued(w) : r.kind = k)
            ~> ((\E r \in Live : r.kind = k /\ r.pc = "visiting" /\ r.w = w) \/ CutShort)

MysteryEnds(r) ==
    /\ r.kind = "mystery"
    /\ CopiesIn(r, tasks') = CopiesIn(r, tasks) - 1
    /\ NTasks' = NTasks - 1
\* a task ending before its visit puts its point back in the backlog
TaskKeepsPoint ==
    [][\A r \in Live :
          (MysteryEnds(r) /\ r.pc # "visiting") =>
              mysteries' = Append(mysteries, r.pt)]_vars
\* the launcher holding a popped point lets go of it only into a task
LauncherKeepsPoint ==
    [][(lpc = "acq_m" /\ lpc' # "acq_m") =>
          \E r \in BagToSet(tasks') :
              /\ r.kind = "mystery" /\ r.pt = mystery_point /\ r.pc = "created"
              /\ CopiesIn(r, tasks') > CopiesIn(r, tasks)]_vars

\* C31: a mystery point popped from the backlog is never lost: its task ends
\* with a visit performed for the point or with the point back in the backlog,
\* also when the task faults before the visit, and the launcher waiting for the
\* permit after the pop hands the point to a task.
C31_MysteriesConserved ==
    /\ TaskKeepsPoint
    /\ LauncherKeepsPoint

====
